---- MODULE Spec2Model ----
(***************************************************************************)
(* Model of the API-only annual report downloader (src/app.py):            *)
(* Identifier Resolver -> Report Locator -> Document Fetcher, sequenced by  *)
(* the Batch Runner run_downloads.                                          *)
(*                                                                          *)
(* Text is modelled as sequences of one-character strings, JSON values as   *)
(* tagged records, Python dicts as sequences of <<key, value>> pairs (a     *)
(* Python dict keeps insertion order, and the code's stable sorts depend    *)
(* on it).                                                                  *)
(***************************************************************************)
EXTENDS Integers, Sequences, FiniteSets, TLC

\* ------------------------------------------------------------------ text
LowerChars == <<"a","b","c","d","e","f","g","h","i","j","k","l","m",
                "n","o","p","q","r","s","t","u","v","w","x","y","z">>
UpperChars == <<"A","B","C","D","E","F","G","H","I","J","K","L","M",
                "N","O","P","Q","R","S","T","U","V","W","X","Y","Z">>
DigitChars == <<"0","1","2","3","4","5","6","7","8","9">>

IsDigit(c) == \E i \in 1..10 : DigitChars[i] = c
IsSpace(c) == c = " "

\* str.lower / str.upper, one character
LowerCh(c) == IF \E i \in 1..26 : UpperChars[i] = c
              THEN LowerChars[CHOOSE i \in 1..26 : UpperChars[i] = c] ELSE c
UpperCh(c) == IF \E i \in 1..26 : LowerChars[i] = c
              THEN UpperChars[CHOOSE i \in 1..26 : LowerChars[i] = c] ELSE c
lower(s) == [i \in 1..Len(s) |-> LowerCh(s[i])]
upper(s) == [i \in 1..Len(s) |-> UpperCh(s[i])]

\* str.strip(): whitespace removed at both ends
RECURSIVE lstrip(_)
lstrip(s) == IF s # <<>> /\ IsSpace(Head(s)) THEN lstrip(Tail(s)) ELSE s
RECURSIVE rstrip(_)
rstrip(s) == IF s # <<>> /\ IsSpace(s[Len(s)]) THEN rstrip(SubSeq(s, 1, Len(s) - 1)) ELSE s
strip(s) == rstrip(lstrip(s))

\* s[i:i+len(p)] == p (0-based offset i)
MatchesAt(s, p, i) == i + Len(p) <= Len(s) /\ SubSeq(s, i + 1, i + Len(p)) = p
\* `sub in s`
Contains(sub, s) == \E i \in 0..Len(s) : MatchesAt(s, sub, i)
startswith(s, p) == MatchesAt(s, p, 0)
endswith(s, p) == Len(p) <= Len(s) /\ MatchesAt(s, p, Len(s) - Len(p))

\* str.split(): the whitespace-separated words, in order
RECURSIVE TakeWord(_)
TakeWord(s) == IF s = <<>> \/ IsSpace(Head(s)) THEN <<>> ELSE <<Head(s)>> \o TakeWord(Tail(s))
RECURSIVE split(_)
split(s) ==
    LET t == lstrip(s)
        w == TakeWord(t)
    IN  IF t = <<>> THEN <<>> ELSE <<w>> \o split(SubSeq(t, Len(w) + 1, Len(t)))

\* s[-n:]
LastChars(s, n) == IF Len(s) <= n THEN s ELSE SubSeq(s, Len(s) - n + 1, Len(s))
\* s[:n]
FirstItems(s, n) == IF Len(s) <= n THEN s ELSE SubSeq(s, 1, n)

\* str(n) of a non-negative integer
RECURSIVE IntToStr(_)
IntToStr(n) == IF n < 10 THEN <<DigitChars[n + 1]>>
               ELSE IntToStr(n \div 10) \o <<DigitChars[(n % 10) + 1]>>

\* ----------------------------------------------------------------- dicts
\* a Python dict: a sequence of <<key, value>> pairs in insertion order
HasKey(d, k) == \E i \in 1..Len(d) : d[i][1] = k
KeyIndex(d, k) == CHOOSE i \in 1..Len(d) : d[i][1] = k
DictAt(d, k) == d[KeyIndex(d, k)][2]
\* d[k] = v: an existing key keeps its position, a new key is appended
DictSet(d, k, v) == IF HasKey(d, k) THEN [d EXCEPT ![KeyIndex(d, k)] = <<k, v>>]
                    ELSE Append(d, <<k, v>>)
Keys(d) == {d[i][1] : i \in 1..Len(d)}

\* ------------------------------------------------------------------ JSON
\* a decoded JSON value (what r.json() returns), tagged by its Python type
JNull == [t |-> "null", v |-> <<>>]
JStr(s) == [t |-> "str", v |-> s]
JInt(n) == [t |-> "int", v |-> n]
JList(xs) == [t |-> "list", v |-> xs]
JDict(ps) == [t |-> "dict", v |-> ps]
IsDict(j) == j.t = "dict"
IsList(j) == j.t = "list"
IsStr(j) == j.t = "str"
\* Python truth value
Truthy(j) == CASE j.t = "null" -> FALSE
               [] j.t = "int" -> j.v # 0
               [] OTHER -> j.v # <<>>
\* dict.get(k): None when the key is absent (j is a dict)
JGet(j, k) == IF HasKey(j.v, k) THEN DictAt(j.v, k) ELSE JNull
\* item.get(a1) or item.get(a2) or ... or default
RECURSIVE FirstTruthy(_, _, _)
FirstTruthy(item, aliases, default) ==
    IF aliases = <<>> THEN default
    ELSE IF Truthy(JGet(item, Head(aliases))) THEN JGet(item, Head(aliases))
    ELSE FirstTruthy(item, Tail(aliases), default)
\* str(x) of a JSON scalar
PyStr(j) == CASE j.t = "int" -> IntToStr(j.v)
              [] j.t = "null" -> <<"N","o","n","e">>
              [] OTHER -> j.v
EmptyStr == JStr(<<>>)

\* a resolver's return value: (code, name), or (None, None)
NotFound == [found |-> FALSE, code |-> <<>>, name |-> <<>>]
Found(code, name) == [found |-> TRUE, code |-> code, name |-> name]

\* ---------------------------------------------------- _bse_extract_code_name
BseCodeAliases == <<"SCRIP_CD", "SECURITY_CODE", "scripcode", "Scrip_Code",
                    "scrip_cd", "Scripcode", "ScripCode">>
BseNameAliases == <<"Scrip_Name", "SECURITY_NAME", "Issuer_Name", "long_name",
                    "SCRIP_NAME", "scrip_name", "ScripName">>
bse_extract_code_name(item, query) ==
    LET code == strip(PyStr(FirstTruthy(item, BseCodeAliases, EmptyStr)))
        name == PyStr(FirstTruthy(item, BseNameAliases, JStr(query)))
    IN  IF code # <<>> THEN Found(code, name) ELSE NotFound

\* ------------------------------------------------------- _load_bse_master
\* _BSE_MASTER is None, or a dict {name_lower: (code, name), ISIN: (code, name)}
MasterNone == [isNone |-> TRUE, d |-> <<>>]
MasterOf(d) == [isNone |-> FALSE, d |-> d]

\* lines 149-152 / 173-176: one usable row is stored under its lower-cased
\* name and, when it has one, under its upper-cased ISIN
StoreRow(d, code, name, isin) ==
    IF code # <<>> /\ name # <<>>
    THEN LET d1 == DictSet(d, lower(name), <<code, name>>)
         IN  IF isin # <<>> THEN DictSet(d1, upper(isin), <<code, name>>) ELSE d1
    ELSE d

\* lines 145-152: the rows of the CSV (csv.DictReader rows: column -> text)
RECURSIVE LoadCsvRows(_, _)
LoadCsvRows(d, rows) ==
    IF rows = <<>> THEN d
    ELSE LET row == Head(rows)
             code == strip(PyStr(FirstTruthy(row, <<"Security Code", "Scrip Code">>, EmptyStr)))
             name == strip(PyStr(FirstTruthy(row, <<"Security Name", "Scrip Name">>, EmptyStr)))
             isin == strip(PyStr(FirstTruthy(row, <<"ISIN No", "ISIN">>, EmptyStr)))
         IN  LoadCsvRows(StoreRow(d, code, name, isin), Tail(rows))

\* lines 167-176: the items of the JSON list; an item that is no dict raises
\* (AttributeError on item.get) and leaves what was stored so far
RECURSIVE LoadJsonItems(_, _)
LoadJsonItems(d, items) ==
    IF items = <<>> THEN [d |-> d, exc |-> FALSE]
    ELSE IF ~IsDict(Head(items)) THEN [d |-> d, exc |-> TRUE]
    ELSE LET item == Head(items)
             cn == bse_extract_code_name(item, <<>>)
             isin == strip(PyStr(FirstTruthy(item,
                        <<"ISIN_NUMBER", "isin_code", "ISIN_CODE", "isin">>, EmptyStr)))
         IN  LoadJsonItems(StoreRow(d, cn.code, cn.name, isin), Tail(items))

\* bse_make_session: the home page, then the quotes page unless the first raised
bse_make_session(homeOk) ==
    IF homeOk THEN <<"BSE_HOME", "BSE_MARKETWATCH">> ELSE <<"BSE_HOME">>

\* lines 166-179: the outcome of the loop r over a JSON list
JsonLoaded(r, net) ==
    [d |-> r.d,
     logs |-> <<"BSE-DEBUG Master JSON keys">> \o
              (IF r.exc THEN <<"BSE-DEBUG JSON master failed">>
               ELSE <<"BSE Master loaded from JSON">>),
     net |-> net]

\* lines 158-181: the JSON fallback
LoadFallback(json, homeOk) ==
    IF IsList(json) /\ json.v # <<>>
    THEN IF ~IsDict(json.v[1])
         THEN [d |-> <<>>, logs |-> <<"BSE-DEBUG JSON master failed">>,
               net |-> bse_make_session(homeOk) \o <<"BSE_MASTER_JSON">>]
         ELSE JsonLoaded(LoadJsonItems(<<>>, json.v),
                         bse_make_session(homeOk) \o <<"BSE_MASTER_JSON">>)
    ELSE [d |-> <<>>, logs |-> <<>>, net |-> bse_make_session(homeOk) \o <<"BSE_MASTER_JSON">>]

\* line 181: what _load_bse_master returns after the fallback f
AfterFallback(firstLogs, f) ==
    [master |-> MasterOf(f.d), logs |-> firstLogs \o f.logs, net |-> <<"BSE_CSV">> \o f.net]

\* _load_bse_master with the guard of line 126 written as a truth test
\* (if _BSE_MASTER: return): an empty dataset is loaded again
load_bse_master_if_empty(master, csv, json, homeOk) ==
    IF ~master.isNone /\ master.d # <<>> THEN [master |-> master, logs |-> <<>>, net |-> <<>>]
    ELSE IF csv.exc
    THEN AfterFallback(<<"BSE Loading equity master list", "BSE-DEBUG CSV load failed">>,
                       LoadFallback(json, homeOk))
    ELSE IF csv.status = 200 /\ csv.comma
    THEN [master |-> MasterOf(LoadCsvRows(<<>>, csv.rows)),
          logs |-> <<"BSE Loading equity master list", "BSE Master loaded from CSV">>,
          net |-> <<"BSE_CSV">>]
    ELSE AfterFallback(<<"BSE Loading equity master list">>, LoadFallback(json, homeOk))

\* _load_bse_master (lines 124-181): csv is the answer of the CSV download
\* ([exc, status, comma, rows]), json the decoded answer of the fallback
\* endpoint (JNull when fetch_json failed)
load_bse_master(master, csv, json, homeOk) ==
    IF ~master.isNone THEN [master |-> master, logs |-> <<>>, net |-> <<>>]
    ELSE IF csv.exc
    THEN AfterFallback(<<"BSE Loading equity master list", "BSE-DEBUG CSV load failed">>,
                       LoadFallback(json, homeOk))
    ELSE IF csv.status = 200 /\ csv.comma
    THEN [master |-> MasterOf(LoadCsvRows(<<>>, csv.rows)),
          logs |-> <<"BSE Loading equity master list", "BSE Master loaded from CSV">>,
          net |-> <<"BSE_CSV">>]
    ELSE AfterFallback(<<"BSE Loading equity master list">>, LoadFallback(json, homeOk))

\* ----------------------------------------------------- _search_bse_master
\* line 203: the alternatives of the suffix pattern in order; TRUE marks \.?
SuffixTokens == <<
    << <<"l","t","d">>, TRUE >>,
    << <<"l","i","m","i","t","e","d">>, FALSE >>,
    << <<"i","n","c">>, TRUE >>,
    << <<"c","o","r","p">>, TRUE >>,
    << <<"p","v","t">>, TRUE >>,
    << <<"l","l","p">>, FALSE >>,
    << <<"i","n","d","u","s","t","r","i","e","s">>, FALSE >>,
    << <<"c","o","m","p","a","n","y">>, FALSE >>,
    << <<"e","n","t","e","r","p","r","i","s","e","s">>, FALSE >>,
    << <<"s","o","l","u","t","i","o","n","s">>, FALSE >> >>

\* the alternatives that match at offset i (re.I)
SuffixHits(s, i) == {n \in 1..Len(SuffixTokens) : MatchesAt(lower(s), SuffixTokens[n][1], i)}
\* the length matched by alternative n at offset i: \.? is greedy
SuffixLen(s, i, n) ==
    IF SuffixTokens[n][2] /\ i + Len(SuffixTokens[n][1]) < Len(s)
       /\ s[i + Len(SuffixTokens[n][1]) + 1] = "."
    THEN Len(SuffixTokens[n][1]) + 1 ELSE Len(SuffixTokens[n][1])
\* the first alternative among hits decides
FirstHitLen(s, i, hits) ==
    IF hits = {} THEN 0 ELSE SuffixLen(s, i, CHOOSE m \in hits : \A o \in hits : m <= o)
\* length of the pattern's match at offset i, 0 when it does not match
SuffixMatchLen(s, i) == FirstHitLen(s, i, SuffixHits(s, i))

\* re.sub(pattern, "", s): every leftmost non-overlapping match removed
RECURSIVE StripSuffixFrom(_, _)
SkipOrCopy(s, i, n) == IF n > 0 THEN StripSuffixFrom(s, i + n)
                       ELSE <<s[i + 1]>> \o StripSuffixFrom(s, i + 1)
StripSuffixFrom(s, i) == IF i >= Len(s) THEN <<>> ELSE SkipOrCopy(s, i, SuffixMatchLen(s, i))
StripSuffixes(s) == strip(StripSuffixFrom(s, 0))

\* matches.sort(key=len); matches[0]: the sort is stable, so the first entry,
\* in dict order, among those with the shortest key
ShortestFirst(entries) ==
    entries[CHOOSE k \in 1..Len(entries) :
                /\ \A j \in 1..Len(entries) : Len(entries[k][1]) <= Len(entries[j][1])
                /\ \A j \in 1..(k - 1) : Len(entries[j][1]) > Len(entries[k][1])]

\* lines 207-212: the entries the substring stage keeps
SubstringMatches(d, stripped, q_lower) ==
    SelectSeq(d, LAMBDA e : /\ Len(e[1]) > 4
                            /\ (Contains(stripped, e[1]) \/ Contains(q_lower, e[1]))
                            /\ ~startswith(e[1], <<"I","N">>))
\* lines 223-226: the entries the prefix stage keeps
PrefixMatches(d, first_word) ==
    SelectSeq(d, LAMBDA e : startswith(e[1], first_word) /\ ~startswith(e[1], <<"I","N">>))

\* a stage returns the master entry v = (code, name)
MasterHit(v, msg) == [ret |-> Found(v[1], v[2]), exc |-> FALSE, logs |-> msg]
MasterMiss == [ret |-> NotFound, exc |-> FALSE, logs |-> <<>>]

\* lines 220-233: the first-word prefix stage
PrefixStage(first_word, starts) ==
    IF Len(first_word) >= 3 /\ starts # <<>>
    THEN MasterHit(ShortestFirst(starts)[2], <<"BSE Master prefix match">>)
    ELSE MasterMiss

\* lines 213-221: the substring stage; words = (stripped or q_lower).split(),
\* and words[0] raises IndexError when there is no word
SubstringStage(d, matches, words) ==
    IF matches # <<>> THEN MasterHit(ShortestFirst(matches)[2], <<"BSE Master match">>)
    ELSE IF words = <<>> THEN [ret |-> NotFound, exc |-> TRUE, logs |-> <<>>]
    ELSE PrefixStage(words[1], PrefixMatches(d, words[1]))

\* lines 201-212
FuzzyStages(d, q_lower, stripped) ==
    SubstringStage(d, SubstringMatches(d, stripped, q_lower),
                   split(IF stripped # <<>> THEN stripped ELSE q_lower))

\* lines 189-199 without the test of line 187 (if not master: return None, None)
ExactStagesNoEmptyTest(d, q, q_lower) ==
    IF HasKey(d, q) THEN MasterHit(DictAt(d, q), <<>>)
    ELSE IF HasKey(d, q_lower) THEN MasterHit(DictAt(d, q_lower), <<>>)
    ELSE FuzzyStages(d, q_lower, StripSuffixes(q_lower))

\* lines 187-199: empty master, exact ISIN key, exact lower-cased name key
ExactStages(d, q, q_lower) ==
    IF d = <<>> THEN MasterMiss
    ELSE IF HasKey(d, q) THEN MasterHit(DictAt(d, q), <<>>)
    ELSE IF HasKey(d, q_lower) THEN MasterHit(DictAt(d, q_lower), <<>>)
    ELSE FuzzyStages(d, q_lower, StripSuffixes(q_lower))

\* _search_bse_master on an already loaded master dict d (lines 187-233)
SearchLoaded(query, d) == ExactStages(d, upper(strip(query)), lower(strip(query)))

\* _search_bse_master returns r after the load l
SearchOutcome(l, r) ==
    [ret |-> r.ret, exc |-> r.exc, logs |-> l.logs \o r.logs, net |-> l.net,
     master |-> l.master]
SearchAfterLoad(query, l) == SearchOutcome(l, SearchLoaded(query, l.master.d))
\* _search_bse_master (lines 184-233): loads the master on first use
search_bse_master(query, master, csv, json, homeOk) ==
    SearchAfterLoad(query, load_bse_master(master, csv, json, homeOk))

\* ----------------------------------------------------- bse_search_company
\* re.search(r"/(\d{6})/", s): the offsets at which the pattern matches
SlashCodeOffsets(s) ==
    {k \in 0..Len(s) : /\ k + 8 <= Len(s)
                       /\ s[k + 1] = "/" /\ s[k + 8] = "/"
                       /\ \A j \in 2..7 : IsDigit(s[k + j])}
\* re.fullmatch(r"\d{6}", s)
IsSixDigits(s) == Len(s) = 6 /\ \A j \in 1..6 : IsDigit(s[j])
\* m.group(1) of the leftmost match
FirstSlashCode(s, offs) ==
    SubSeq(s, (CHOOSE k \in offs : \A j \in offs : k <= j) + 2,
              (CHOOSE k \in offs : \A j \in offs : k <= j) + 7)

\* Strategy 1 without the bare-code test of line 249
DirectParseUrlOnly(query) ==
    IF Contains(<<"b","s","e","i","n","d","i","a",".","c","o","m">>, query)
       /\ SlashCodeOffsets(query) # {}
    THEN Found(FirstSlashCode(query, SlashCodeOffsets(query)), query)
    ELSE NotFound
\* Strategy 1 (lines 245-250): the direct code, or NotFound
DirectParse(query) ==
    IF Contains(<<"b","s","e","i","n","d","i","a",".","c","o","m">>, query)
       /\ SlashCodeOffsets(query) # {}
    THEN Found(FirstSlashCode(query, SlashCodeOffsets(query)), query)
    ELSE IF IsSixDigits(strip(query)) THEN Found(strip(query), strip(query))
    ELSE NotFound

\* lines 261-265 and 491-494: the candidate list inside the autocomplete answer
NseResults(data) ==
    IF IsList(data) THEN data
    ELSE IF IsDict(data) THEN FirstTruthy(data, <<"symbols", "data">>, JList(<<>>))
    ELSE JList(<<>>)

\* info.get(k, {}): the default only when the key is absent
SubObject(info, k) == IF HasKey(info.v, k) THEN DictAt(info.v, k) ELSE JDict(<<>>)

\* lines 279-283: the ISIN read from the sub-objects md, inf, sec of the quote
\* answer; exc when a sub-object that is read is no dict (AttributeError)
IsinOf(md, inf, sec) ==
    IF ~IsDict(md) THEN [exc |-> TRUE, v |-> EmptyStr]
    ELSE IF Truthy(JGet(md, "isin")) THEN [exc |-> FALSE, v |-> JGet(md, "isin")]
    ELSE IF ~IsDict(inf) THEN [exc |-> TRUE, v |-> EmptyStr]
    ELSE IF Truthy(JGet(inf, "isin")) THEN [exc |-> FALSE, v |-> JGet(inf, "isin")]
    ELSE IF ~IsDict(sec) THEN [exc |-> TRUE, v |-> EmptyStr]
    ELSE IF Truthy(JGet(sec, "isin")) THEN [exc |-> FALSE, v |-> JGet(sec, "isin")]
    ELSE [exc |-> FALSE, v |-> EmptyStr]
QuoteIsin(info) ==
    IsinOf(SubObject(info, "metadata"), SubObject(info, "info"), SubObject(info, "securityInfo"))
\* lines 284-287: reading co_name raises on the same shapes
NameRaises(md, inf) == ~IsDict(inf) \/ (~Truthy(JGet(inf, "companyName")) /\ ~IsDict(md))
QuoteNameRaises(info) == NameRaises(SubObject(info, "metadata"), SubObject(info, "info"))

\* the outcome of one pass of the loop: kind is "found" (return code, name),
\* "none" (loop ended) or "exc" (raised); key and cand record the master key
\* that was looked up and the number of the candidate it came from
BridgeEnd(kind, ret, logs, net) ==
    [kind |-> kind, ret |-> ret, logs |-> logs, net |-> net, key |-> <<>>, cand |-> 0]
\* the rest of the loop r, after a pass that logged lg and requested nt
BridgeThen(r, lg, nt) ==
    [kind |-> r.kind, ret |-> r.ret, logs |-> lg \o r.logs, net |-> nt \o r.net,
     key |-> r.key, cand |-> r.cand]
\* line 291-295: result = _BSE_MASTER.get(isin.upper()); v = (code, name)
BridgeFound(v, key, k) ==
    [kind |-> "found", ret |-> Found(v[1], v[2]),
     logs |-> <<"BSE NSE hit", "BSE Resolved via ISIN">>, net |-> <<"NSE_QUOTE">>,
     key |-> key, cand |-> k]
\* line 271: candidates beyond the fifth are not looked at
MaxCandidates == 5

\* lines 271-295: the loop over nse_results[:5] from hit number k on, against
\* the loaded master dict d; quotes[k] is the quote answer for hit k
RECURSIVE BridgeLoop(_, _, _, _)
\* lines 288-295, with the ISIN read from the quote answer
BridgeLookup(hits, k, quotes, d, isin) ==
    IF isin.exc \/ QuoteNameRaises(quotes[k])
    THEN BridgeEnd("exc", NotFound, <<>>, <<"NSE_QUOTE">>)
    ELSE IF Truthy(isin.v) /\ d # <<>>
    THEN IF ~IsStr(isin.v)
         THEN BridgeEnd("exc", NotFound, <<"BSE NSE hit">>, <<"NSE_QUOTE">>)
         ELSE IF HasKey(d, upper(isin.v.v))
         THEN BridgeFound(DictAt(d, upper(isin.v.v)), upper(isin.v.v), k)
         ELSE BridgeThen(BridgeLoop(hits, k + 1, quotes, d), <<"BSE NSE hit">>, <<"NSE_QUOTE">>)
    ELSE BridgeThen(BridgeLoop(hits, k + 1, quotes, d), <<"BSE NSE hit">>, <<"NSE_QUOTE">>)
\* lines 272-278, with the symbol of hit k
BridgeHit(hits, k, quotes, d, symbol) ==
    IF ~Truthy(symbol) THEN BridgeLoop(hits, k + 1, quotes, d)
    ELSE IF ~IsStr(symbol)    \* requests.utils.quote raises TypeError
    THEN BridgeEnd("exc", NotFound, <<>>, <<>>)
    ELSE IF ~IsDict(quotes[k])
    THEN BridgeThen(BridgeLoop(hits, k + 1, quotes, d), <<>>, <<"NSE_QUOTE">>)
    ELSE BridgeLookup(hits, k, quotes, d, QuoteIsin(quotes[k]))
BridgeLoop(hits, k, quotes, d) ==
    IF k > Len(hits) THEN BridgeEnd("none", NotFound, <<>>, <<>>)
    ELSE IF ~IsDict(hits[k]) THEN BridgeEnd("exc", NotFound, <<>>, <<>>)
    ELSE BridgeHit(hits, k, quotes, d, FirstTruthy(hits[k], <<"symbol">>, EmptyStr))

\* what Strategy 2 leaves: kind, ret, the log lines, the requests, the master
BridgeResult(kind, ret, logs, net, master, key, cand) ==
    [kind |-> kind, ret |-> ret, logs |-> logs, net |-> net, master |-> master,
     key |-> key, cand |-> cand]
\* nse_make_session that lets the exception of the home page request out
nse_make_session_unguarded(warmOk) == [exc |-> ~warmOk, net |-> <<"NSE_WARMUP">>]

\* nse_make_session (lines 462-469): the home page is requested on a new
\* session; whether the request succeeds (warmOk) or raises, the session is
\* returned and nothing is raised
nse_make_session(warmOk) == [exc |-> FALSE, net |-> <<"NSE_WARMUP">>]

\* lines 296-297: the loop's outcome, an exception logged and swallowed; s is
\* what nse_make_session left
BridgeOutcome(l, loop, s) ==
    BridgeResult(loop.kind, loop.ret,
                 l.logs \o loop.logs \o
                     (IF loop.kind = "exc" THEN <<"BSE-DEBUG NSE cross-lookup error">> ELSE <<>>),
                 s.net \o <<"NSE_AUTOCOMPLETE">> \o l.net \o loop.net, l.master,
                 loop.key, loop.cand)
\* lines 269-295: after the master load l, the loop over the candidates
BridgeLoaded(results, l, quotes, s) ==
    IF ~IsList(results)
    THEN BridgeResult("exc", NotFound, l.logs \o <<"BSE-DEBUG NSE cross-lookup error">>,
                      s.net \o <<"NSE_AUTOCOMPLETE">> \o l.net, l.master, <<>>, 0)
    ELSE BridgeOutcome(l, BridgeLoop(FirstItems(results.v, MaxCandidates), 1, quotes,
                                     l.master.d), s)

\* lines 258-295: s is what nse_make_session left; an exception out of it
\* would be caught at line 296 like any other
BridgeSession(master, env, s) ==
    IF s.exc
    THEN BridgeResult("exc", NotFound, <<"BSE-DEBUG NSE cross-lookup error">>, s.net, master,
                      <<>>, 0)
    ELSE BridgeLoaded(NseResults(env.auto),
                      load_bse_master(master, env.csv, env.json, env.homeOk), env.quotes, s)

\* Strategy 2 (lines 256-297), entered with the master as it is.  env: auto
\* (autocomplete answer), quotes, whether the NSE home page answers (warmOk),
\* and the answers _load_bse_master gets (csv, json, homeOk)
Bridge(query, master, env) ==
    IF split(query) = <<>>
    THEN BridgeResult("exc", NotFound, <<"BSE-DEBUG NSE cross-lookup error">>, <<>>, master,
                      <<>>, 0)
    ELSE BridgeSession(master, env, nse_make_session(env.warmOk))

\* what bse_search_company leaves: ret, whether an exception leaves the
\* function (exc), the log lines and network requests in order, the new value
\* of _BSE_MASTER, the strategy that decided (via) and, for the bridge, the
\* master key and the candidate
Resolution(ret, exc, logs, net, master, via, key, cand) ==
    [ret |-> ret, exc |-> exc, logs |-> logs, net |-> net, master |-> master, via |-> via,
     key |-> key, cand |-> cand]

\* Strategy 3 (lines 300-307): s is what _search_bse_master left
AfterMaster(b, s) ==
    IF s.exc
    THEN Resolution(NotFound, TRUE, <<"BSE Searching">> \o b.logs \o s.logs,
                    b.net \o s.net, s.master, "none", <<>>, 0)
    ELSE IF s.ret.found
    THEN Resolution(s.ret, FALSE,
                    <<"BSE Searching">> \o b.logs \o s.logs \o <<"BSE Found via master">>,
                    b.net \o s.net, s.master, "master", <<>>, 0)
    ELSE Resolution(NotFound, FALSE,
                    <<"BSE Searching">> \o b.logs \o s.logs \o
                        <<"BSE Not found", "BSE hint: enter the scrip code">>,
                    b.net \o s.net, s.master, "none", <<>>, 0)

\* lines 293-300 without the return of line 295: the master search decides
\* even when Strategy 2 found an entry
AfterBridgeNoReturn(query, env, b) ==
    AfterMaster(b, search_bse_master(query, b.master, env.csv, env.json, env.homeOk))

\* lines 293-300: b is what Strategy 2 left
AfterBridge(query, env, b) ==
    IF b.kind = "found"
    THEN Resolution(b.ret, FALSE, <<"BSE Searching">> \o b.logs, b.net, b.master, "bridge",
                    b.key, b.cand)
    ELSE AfterMaster(b, search_bse_master(query, b.master, env.csv, env.json, env.homeOk))

\* lines 245-252: direct is what Strategy 1 found
AfterDirect(query, master, env, direct) ==
    IF direct.found THEN Resolution(direct, FALSE, <<>>, <<>>, master, "direct", <<>>, 0)
    ELSE AfterBridge(query, env, Bridge(query, master, env))

\* bse_search_company (lines 236-307)
bse_search_company(query, master, env) == AfterDirect(query, master, env, DirectParse(query))

\* ----------------------------------------------------- nse_search_company
NseCall(ret, exc, logs) == [ret |-> ret, exc |-> exc, logs |-> logs, net |-> <<"NSE_AUTOCOMPLETE">>]
\* lines 500-505
NseSymbol(symbol, name) ==
    IF Truthy(symbol)
    THEN IF ~IsStr(symbol)    \* symbol.upper() raises AttributeError
         THEN NseCall(NotFound, TRUE, <<"NSE Searching", "NSE Found">>)
         ELSE NseCall(Found(upper(symbol.v), PyStr(name)), FALSE, <<"NSE Searching", "NSE Found">>)
    ELSE NseCall(NotFound, FALSE, <<"NSE Searching", "NSE Company not found">>)
\* lines 497-499
NseFirst(first, symbol) ==
    NseSymbol(symbol, FirstTruthy(first, <<"company_name", "companyName">>, symbol))
\* lines 496-505: results[0] of a truthy non-list and .get on a non-dict raise
NseFromResults(results) ==
    IF Truthy(results)
    THEN IF ~IsList(results) \/ ~IsDict(results.v[1])
         THEN NseCall(NotFound, TRUE, <<"NSE Searching">>)
         ELSE NseFirst(results.v[1], FirstTruthy(results.v[1], <<"symbol", "data">>, EmptyStr))
    ELSE NseCall(NotFound, FALSE, <<"NSE Searching", "NSE Company not found">>)
\* nse_search_company (lines 485-505); data is the autocomplete answer
nse_search_company(query, data) == NseFromResults(NseResults(data))

\* ----------------------------------------------------- bse_get_report_url
\* line 331: the container fields of a wrapped listing
BseUnwrap(data) ==
    FirstTruthy(data, <<"Table", "data", "AnnualReportList", "reports">>, JList(<<>>))
\* lines 324-336: the endpoints in order from number k on; the first answer
\* that is a non-empty list, or a dict holding a truthy container field, is
\* kept.  n: how many endpoints were queried
RECURSIVE BseListing(_, _)
BseListing(lists, k) ==
    IF k > Len(lists) THEN [data |-> JNull, n |-> Len(lists), logs |-> <<>>]
    ELSE IF IsList(lists[k]) /\ lists[k].v # <<>>
    THEN [data |-> lists[k], n |-> k, logs |-> <<"BSE-DEBUG Report endpoint worked">>]
    ELSE IF IsDict(lists[k]) /\ Truthy(BseUnwrap(lists[k]))
    THEN [data |-> BseUnwrap(lists[k]), n |-> k,
          logs |-> <<"BSE-DEBUG Unwrapped dict from endpoint">>]
    ELSE BseListing(lists, k + 1)

BsePeriodAliases == <<"year", "PERIOD", "YEAR", "TO_PERIOD", "toDate", "FromDate">>
BsePdfAliases == <<"file_name", "FILENAME", "fileName", "PDFNAME", "DOCUMENT_NAME",
                   "PDF_LINK", "ATTACHMENTNAME", "FILECODE", "FileNm", "STRFILEPATH",
                   "FILEPATH", "FileName">>

\* " ".join(str(v) for v in item.values())
RECURSIVE JoinValues(_)
JoinValues(ps) ==
    IF ps = <<>> THEN <<>>
    ELSE IF Len(ps) = 1 THEN PyStr(ps[1][2])
    ELSE PyStr(ps[1][2]) \o <<" ">> \o JoinValues(Tail(ps))

\* line 359-365: the text of a record the year is looked for in
BseAllText(item) ==
    PyStr(FirstTruthy(item, BsePeriodAliases, EmptyStr)) \o <<" ">> \o JoinValues(item.v)
\* line 367
BseTextMatches(target_str, all_text) ==
    Contains(target_str, all_text) \/ Contains(<<"-">> \o LastChars(target_str, 2), all_text)
\* lines 354-368: the year predicate of exchange A on one record
BseYearMatches(item, yr) == BseTextMatches(IntToStr(yr), BseAllText(item))

\* lines 381-382: an accidental double extension is cut
CutDoubleExt(pdf) ==
    IF endswith(pdf, <<".","p","d","f",".","p","d","f">>)
    THEN SubSeq(pdf, 1, Len(pdf) - 4) ELSE pdf
\* lines 371-382: the document reference of a record
BsePdfRef(item) == CutDoubleExt(strip(PyStr(FirstTruthy(item, BsePdfAliases, EmptyStr))))

IsHex(c) == IsDigit(c) \/ LowerCh(c) \in {"a", "b", "c", "d", "e", "f"}
\* re.match of the UUID pattern (line 395): a match at the start
IsGuid(pdf) ==
    /\ Len(pdf) >= 36
    /\ \A j \in 1..36 : IF j \in {9, 14, 19, 24} THEN pdf[j] = "-" ELSE IsHex(pdf[j])

BseBaseAttachHis == <<"h","t","t","p","s",":","/","/","w","w","w",".","b","s","e","i","n","d","i","a",".","c","o","m","/","x","m","l","-","d","a","t","a","/","c","o","r","p","f","i","l","i","n","g","/","A","t","t","a","c","h","H","i","s","/">>
BseBaseAnnualReports == <<"h","t","t","p","s",":","/","/","w","w","w",".","b","s","e","i","n","d","i","a",".","c","o","m","/","A","n","n","u","a","l","R","e","p","o","r","t","s","/">>
BseBasePlus == <<"h","t","t","p","s",":","/","/","w","w","w",".","b","s","e","i","n","d","i","a",".","c","o","m","/","b","s","e","p","l","u","s","/","A","n","n","u","a","l","R","e","p","o","r","t","/">>
\* lines 399-406
BseBases(pdf) == IF IsGuid(pdf) THEN <<BseBaseAttachHis>>
                 ELSE <<BseBaseAttachHis, BseBaseAnnualReports, BseBasePlus>>

\* what the locator leaves: the URL (<<>> is None), whether it raised, the
\* log lines, the requests, and the record the URL came from (JNull: none)
Located(url, exc, logs, net, sel) ==
    [url |-> url, exc |-> exc, logs |-> logs, net |-> net, sel |-> sel]
\* the rest r of a loop, after log lines lg and requests nt
LocatedThen(r, lg, nt) == Located(r.url, r.exc, lg \o r.logs, nt \o r.net, r.sel)

\* lines 407-420 without the best guess of lines 418-420: no URL when no
\* probe succeeds
RECURSIVE BseProbeNoGuess(_, _, _, _, _)
BseProbeNoGuess(bases, k, pdf, heads, sel) ==
    IF k > Len(bases)
    THEN Located(<<>>, FALSE, <<"BSE No report matched year">>, <<>>, JNull)
    ELSE IF ~heads[k].exc /\ heads[k].status < 400
    THEN Located(bases[k] \o pdf, FALSE, <<"BSE URL confirmed">>, <<"BSE_HEAD">>, sel)
    ELSE LocatedThen(BseProbeNoGuess(bases, k + 1, pdf, heads, sel), <<>>, <<"BSE_HEAD">>)

\* lines 407-420: the HEAD probes from base number k on; heads[k] is the
\* outcome of probe k ([exc, status]); the best guess when none succeeds
RECURSIVE BseProbe(_, _, _, _, _)
BseProbe(bases, k, pdf, heads, sel) ==
    IF k > Len(bases)
    THEN Located(bases[1] \o pdf, FALSE, <<"BSE Returning best-guess URL">>, <<>>, sel)
    ELSE IF ~heads[k].exc /\ heads[k].status < 400
    THEN Located(bases[k] \o pdf, FALSE, <<"BSE URL confirmed">>, <<"BSE_HEAD">>, sel)
    ELSE LocatedThen(BseProbe(bases, k + 1, pdf, heads, sel), <<>>, <<"BSE_HEAD">>)

\* lines 357-423: the loop over the records from number k on
RECURSIVE BseItems(_, _, _, _)
\* lines 384-420: record k matched the year; pdf is its document reference
BseMatched(items, k, yr, heads, pdf) ==
    IF pdf = <<>>
    THEN LocatedThen(BseItems(items, k + 1, yr, heads),
                     <<"BSE Year matched", "BSE-DEBUG No PDF field">>, <<>>)
    ELSE IF startswith(pdf, <<"h","t","t","p">>)
    THEN Located(pdf, FALSE, <<"BSE Year matched">>, <<>>, items[k])
    ELSE LocatedThen(BseProbe(BseBases(pdf), 1, pdf, heads, items[k]),
                     <<"BSE Year matched">>, <<>>)
\* the loop with the log call of line 422 left out
RECURSIVE BseItemsSilent(_, _, _, _)
BseItemsSilent(items, k, yr, heads) ==
    IF k > Len(items) THEN Located(<<>>, FALSE, <<>>, <<>>, JNull)
    ELSE IF ~IsDict(items[k]) THEN Located(<<>>, TRUE, <<>>, <<>>, JNull)
    ELSE IF ~BseYearMatches(items[k], yr) THEN BseItemsSilent(items, k + 1, yr, heads)
    ELSE BseMatched(items, k, yr, heads, BsePdfRef(items[k]))
BseItems(items, k, yr, heads) ==
    IF k > Len(items) THEN Located(<<>>, FALSE, <<"BSE No report matched year">>, <<>>, JNull)
    ELSE IF ~IsDict(items[k]) THEN Located(<<>>, TRUE, <<>>, <<>>, JNull)
    ELSE IF ~BseYearMatches(items[k], yr) THEN BseItems(items, k + 1, yr, heads)
    ELSE BseMatched(items, k, yr, heads, BsePdfRef(items[k]))

RECURSIVE Repeat(_, _)
Repeat(x, n) == IF n = 0 THEN <<>> ELSE <<x>> \o Repeat(x, n - 1)

\* lines 338-423: l is the listing the endpoints gave
BseLocateIn(l, yr, heads) ==
    IF ~Truthy(l.data)
    THEN Located(<<>>, FALSE,
                 <<"BSE Fetching report list">> \o l.logs \o
                     <<"BSE No report list returned", "BSE hint: verify scrip code">>,
                 Repeat("BSE_LIST", l.n), JNull)
    ELSE IF ~IsList(l.data) \/ \E j \in 1..Len(FirstItems(l.data.v, 8)) : ~IsDict(l.data.v[j])
    THEN Located(<<>>, TRUE, <<"BSE Fetching report list">> \o l.logs,
                 Repeat("BSE_LIST", l.n), JNull)
    ELSE LocatedThen(BseItems(l.data.v, 1, yr, heads),
                     <<"BSE Fetching report list">> \o l.logs \o
                         <<"BSE-DEBUG Report keys", "BSE-DEBUG Periods found">>,
                     Repeat("BSE_LIST", l.n))

\* bse_get_report_url (lines 310-423), called with a session.  lists: the
\* decoded answers of the three endpoints, heads: the outcomes of the probes
bse_get_report_url(scrip_code, yr, lists, heads) == BseLocateIn(BseListing(lists, 1), yr, heads)

\* ----------------------------------------------------- nse_get_report_url
NseBase == <<"h","t","t","p","s",":","/","/","w","w","w",".","n","s","e","i","n","d","i","a",".","c","o","m">>

\* line 545: the year predicate of exchange B on one record
NseYearMatches(item, yr) ==
    \/ PyStr(FirstTruthy(item, <<"toYr">>, EmptyStr)) = IntToStr(yr)
    \/ PyStr(FirstTruthy(item, <<"fromYr">>, EmptyStr)) = IntToStr(yr)

\* line 548
NseFullUrl(pdf_url) ==
    IF startswith(pdf_url, <<"h","t","t","p">>) THEN pdf_url ELSE NseBase \o pdf_url

\* lines 538-554: the loop over the records from number k on
RECURSIVE NseItems(_, _, _)
\* lines 546-551 giving up at a matched record without fileName
NseMatchedGiveUp(items, k, yr, pdf_url) ==
    IF pdf_url = <<>>
    THEN Located(<<>>, FALSE,
                 <<"NSE-DEBUG Entry", "NSE Matched", "NSE-DEBUG Matched but fileName empty">>,
                 <<>>, JNull)
    ELSE Located(NseFullUrl(pdf_url), FALSE, <<"NSE-DEBUG Entry", "NSE Matched">>, <<>>,
                 items[k])

\* lines 546-551: record k matched the year
NseMatched(items, k, yr, pdf_url) ==
    IF pdf_url = <<>>
    THEN LocatedThen(NseItems(items, k + 1, yr),
                     <<"NSE-DEBUG Entry", "NSE Matched", "NSE-DEBUG Matched but fileName empty">>,
                     <<>>)
    ELSE Located(NseFullUrl(pdf_url), FALSE, <<"NSE-DEBUG Entry", "NSE Matched">>, <<>>,
                 items[k])
NseItems(items, k, yr) ==
    IF k > Len(items) THEN Located(<<>>, FALSE, <<"NSE No report found for year">>, <<>>, JNull)
    ELSE IF ~IsDict(items[k]) THEN Located(<<>>, TRUE, <<>>, <<>>, JNull)
    ELSE IF ~NseYearMatches(items[k], yr)
    THEN LocatedThen(NseItems(items, k + 1, yr), <<"NSE-DEBUG Entry">>, <<>>)
    ELSE NseMatched(items, k, yr, PyStr(FirstTruthy(items[k], <<"fileName">>, EmptyStr)))

\* lines 524-554: data is the listing, head the log lines so far
NseLocateIn(data, yr, head, net) ==
    IF ~IsList(data) \/ data.v = <<>>
    THEN Located(<<>>, FALSE, head \o <<"NSE No report list returned">>, net, JNull)
    ELSE IF \E j \in 1..Len(FirstItems(data.v, 10)) : ~IsDict(data.v[j])
    THEN Located(<<>>, TRUE, head, net, JNull)
    ELSE LocatedThen(NseItems(data.v, 1, yr),
                     head \o <<"NSE-DEBUG Report list keys", "NSE-DEBUG Available periods">>,
                     net)

\* lines 520-522: a dict answer is unwrapped
NseUnwrap(raw, yr, net) ==
    IF ~IsList(raw) /\ IsDict(raw)
    THEN NseLocateIn(FirstTruthy(raw, <<"data", "reports", "annualReports">>, JList(<<>>)), yr,
                     <<"NSE Fetching report list", "NSE-DEBUG Response dict keys">>, net)
    ELSE NseLocateIn(raw, yr, <<"NSE Fetching report list">>, net)

\* nse_get_report_url (lines 508-554); lists: the decoded answers of the
\* primary and the alternate endpoint
nse_get_report_url(symbol, yr, lists) ==
    IF Truthy(lists[1]) THEN NseUnwrap(lists[1], yr, <<"NSE_LIST">>)
    ELSE NseUnwrap(lists[2], yr, <<"NSE_LIST", "NSE_LIST">>)

\* ------------------------------------------------- handle_nse, lines 558-565
\* what the first lines of handle_nse leave: the symbol and name, the URL
\* (<<>> when the handler returns None before it has one), whether an
\* exception leaves the handler, the log lines and the requests in order
NseHandled(ret, url, exc, logs, net) ==
    [ret |-> ret, url |-> url, exc |-> exc, logs |-> logs, net |-> net]
\* lines 563-565: l is what nse_get_report_url left on the session s
NseHandledList(s, r, l) ==
    NseHandled(r.ret, l.url, l.exc, r.logs \o l.logs, s.net \o r.net \o l.net)
\* lines 559-563: r is what nse_search_company left on the session s
NseHandledSearch(s, r, yr, lists) ==
    IF r.exc \/ ~r.ret.found
    THEN NseHandled(r.ret, <<>>, r.exc, r.logs, s.net \o r.net)
    ELSE NseHandledList(s, r, nse_get_report_url(r.ret.code, yr, lists))
\* line 558: s is what nse_make_session left
NseHandledSession(s, company, yr, auto, lists) ==
    IF s.exc THEN NseHandled(NotFound, <<>>, TRUE, <<>>, s.net)
    ELSE NseHandledSearch(s, nse_search_company(company, auto), yr, lists)
\* handle_nse up to the URL of the report (lines 558-565)
handle_nse_locate(company, yr, warmOk, auto, lists) ==
    NseHandledSession(nse_make_session(warmOk), company, yr, auto, lists)

\* ------------------------------------------------------------ fetch_bytes
MinBytes == 1000
\* fetch_bytes without the raise_for_status() of line 83
fetch_bytes_any_status(url, resp) ==
    IF resp.exc THEN 0
    ELSE IF resp.size < MinBytes THEN 0
    ELSE resp.size
\* lines 80-88; resp: [exc (transport error), status, size (len(r.content))].
\* The payload is modelled by its size; 0 is the return value None
fetch_bytes(url, resp) ==
    IF resp.exc THEN 0
    ELSE IF resp.status >= 400 /\ resp.status < 600 THEN 0
    ELSE IF resp.size < MinBytes THEN 0
    ELSE resp.size

\* --------------------------------------------------------------- sanitize
UnsafeChars == {"<", ">", ":", "\"", "/", "\\", "|", "?", "*"}
\* sanitize that replaces only the path separator
sanitize_slash_only(name) == strip([i \in 1..Len(name) |-> IF name[i] = "/" THEN "_" ELSE name[i]])

\* line 67: re.sub(r'[<>:"/\\|?*]', '_', name).strip()
sanitize(name) == strip([i \in 1..Len(name) |-> IF name[i] \in UnsafeChars THEN "_" ELSE name[i]])

\* lines 443 and 573: the file name of a fetched report
ReportFileName(exch, name, year) ==
    sanitize(exch \o <<"_">> \o name \o <<"_">> \o IntToStr(year) \o
             <<"_","A","n","n","u","a","l","R","e","p","o","r","t",".","p","d","f">>)

\* ================================================================ inputs
\* The inputs and the exchange answers the model draws from.

\* company identifiers as the operator may type them
q_code == <<"5","0","0","4","7","0">>
q_code_sp == <<" ","5","0","0","4","7","0"," ">>
q_url == <<"h","t","t","p","s",":","/","/","w","w","w",".","b","s","e","i","n","d","i","a",".","c","o","m","/","s","t","o","c","k","/","t","a","t","a","/","5","0","0","4","7","0","/">>
q_url_nocode == <<"b","s","e","i","n","d","i","a",".","c","o","m","/","a","b","o","u","t">>
q_tata_steel == <<"t","a","t","a"," ","s","t","e","e","l">>
q_Tata_Steel == <<"T","a","t","a"," ","S","t","e","e","l">>
q_tata == <<"t","a","t","a">>
q_isin == <<"I","N","E","0","8","1">>
q_blank == <<" ">>
q_ltd == <<"l","t","d">>
q_infosys_ltd == <<"i","n","f","o","s","y","s"," ","l","t","d">>
q_zzz == <<"z","z","z">>
q_itc == <<"i","t","c">>
q_it == <<"i","t">>
q_tata_steel_ltd == <<"T","a","t","a"," ","S","t","e","e","l"," ","L","t","d">>
q_url_two == <<"b","s","e","i","n","d","i","a",".","c","o","m","/","x","/","5","0","0","8","7","5","/","y","/","5","0","0","4","7","0","/">>
ResolverInputs == <<q_code, q_code_sp, q_url, q_url_nocode, q_tata_steel, q_Tata_Steel,
                    q_tata, q_isin, q_blank, q_ltd, q_infosys_ltd, q_zzz, q_itc, q_it,
                    q_tata_steel_ltd, q_url_two>>
BatchInputs == <<q_code, q_zzz>>
Years == {2023, 2024, 2025}

\* rows of the equity master
c_tatasteel == <<"5","0","0","4","7","0">>
c_tatamotors == <<"5","0","0","5","7","0">>
c_itc == <<"5","0","0","8","7","5">>
c_infy == <<"5","0","0","2","0","9">>
c_dup1 == <<"5","0","0","0","0","1">>
c_dup2 == <<"5","0","0","0","0","2">>
n_tatasteel == <<"T","a","t","a"," ","S","t","e","e","l"," ","L","t","d">>
n_tatamotors == <<"T","a","t","a"," ","M","o","t","o","r","s">>
n_itc == <<"I","T","C">>
n_infy == <<"I","n","f","o","s","y","s"," ","L","i","m","i","t","e","d">>
n_dup1 == <<"T","a","t","a"," ","S","t","e","e","l">>
n_dup2 == <<"T","A","T","A"," ","S","T","E","E","L">>
i_tatasteel == <<"I","N","E","0","8","1">>
i_tatamotors == <<"I","N","E","1","5","5">>
i_itc == <<"I","N","E","1","5","4">>
i_infy == <<"I","N","E","0","0","9">>
i_dup2 == <<"I","N","E","9","9","9">>

CsvRow(code, name, isin) ==
    JDict(<< <<"Security Code", JStr(code)>>, <<"Security Name", JStr(name)>>,
             <<"ISIN No", JStr(isin)>> >>)
MasterItem(code, name, isin) ==
    JDict(<< <<"SCRIP_CD", JStr(code)>>, <<"Scrip_Name", JStr(name)>>,
             <<"ISIN_NUMBER", JStr(isin)>> >>)

\* answers of the CSV download (line 141): a transport error; the full list;
\* a list in which two rows share a lower-cased name; a CSV without the
\* expected columns; an HTML error page
CsvAnswers == <<
    [exc |-> TRUE, status |-> 0, comma |-> FALSE, rows |-> <<>>],
    [exc |-> FALSE, status |-> 200, comma |-> TRUE,
     rows |-> <<CsvRow(c_tatasteel, n_tatasteel, i_tatasteel),
                CsvRow(c_tatamotors, n_tatamotors, i_tatamotors),
                CsvRow(c_itc, n_itc, i_itc),
                CsvRow(c_infy, n_infy, i_infy)>>],
    [exc |-> FALSE, status |-> 200, comma |-> TRUE,
     rows |-> <<CsvRow(c_dup1, n_dup1, i_tatasteel),
                CsvRow(c_dup2, n_dup2, i_dup2)>>],
    [exc |-> FALSE, status |-> 200, comma |-> TRUE,
     rows |-> <<JDict(<< <<"Code", JStr(c_itc)>>, <<"Name", JStr(n_itc)>> >>)>>],
    [exc |-> FALSE, status |-> 404, comma |-> FALSE, rows |-> <<>>] >>

\* answers of the JSON fallback (line 161): fetch_json failed; a short list;
\* a list whose second item is no record; a dict
MasterJsonAnswers == <<
    JNull,
    JList(<<MasterItem(c_itc, n_itc, i_itc)>>),
    JList(<<MasterItem(c_itc, n_itc, i_itc), JStr(<<"x">>)>>),
    JDict(<< <<"Table", JList(<<MasterItem(c_itc, n_itc, i_itc)>>)>> >>) >>

\* answers of the NSE autocomplete call (lines 260 and 488)
sym_tatasteel == <<"T","A","T","A","S","T","E","E","L">>
sym_tatamotors == <<"T","A","T","A","M","O","T","O","R","S">>
Hit(symbol) == JDict(<< <<"symbol", JStr(symbol)>> >>)
AutoAnswers == <<
    JNull,
    JList(<<Hit(sym_tatasteel)>>),
    JDict(<< <<"symbols", JList(<<Hit(sym_tatamotors), Hit(sym_tatasteel)>>)>> >>),
    JList(<<JStr(<<"x">>)>>),
    JList(<<JDict(<< <<"symbol", JInt(7)>> >>)>>),
    JList(<<>>),
    JList(<<Hit(sym_tatamotors), Hit(sym_tatamotors), Hit(sym_tatamotors), Hit(sym_tatamotors),
            Hit(sym_tatamotors), Hit(sym_tatasteel)>>) >>

\* answers of the NSE quote call (line 276)
QuoteAnswers == <<
    JNull,
    JDict(<< <<"metadata", JDict(<< <<"isin", JStr(i_tatasteel)>> >>)>> >>),
    JDict(<< <<"info", JDict(<< <<"isin", JStr(i_tatamotors)>>,
                                <<"companyName", JStr(n_tatamotors)>> >>)>> >>),
    JDict(<< <<"metadata", JNull>> >>) >>
\* the quote answers for the (at most five) hits: a for the first, b for the rest
Quotes(a, b) == [k \in 1..5 |-> IF k = 1 THEN QuoteAnswers[a] ELSE QuoteAnswers[b]]

\* records of a filing list
p_2324 == <<"2","0","2","3","-","2","4">>
p_2425 == <<"2","0","2","4","-","2","5">>
f_plain == <<"a","r",".","p","d","f">>
f_abs == <<"h","t","t","p",":","/","/","x","/","a","r",".","p","d","f">>
f_abs_twice == <<"h","t","t","p",":","/","/","x","/","a","r",".","p","d","f",".","p","d","f">>
f_guid == <<"7","c","9","e","6","6","7","9","-","2","5","e","0","-","4","a","1","b","-","9","f","3","d","-","2","b","1","a","0","c","4","d","5","e","6","f",".","p","d","f">>
nf_rel == <<"/","a","r",".","p","d","f">>
BseRec(period, file) == JDict(<< <<"year", JStr(period)>>, <<"file_name", JStr(file)>> >>)
NseRec(from, to, file) ==
    JDict(<< <<"fromYr", JStr(IntToStr(from))>>, <<"toYr", JStr(IntToStr(to))>>,
             <<"fileName", JStr(file)>> >>)

\* answers of a BSE listing endpoint (line 325)
BseListAnswers == <<
    JNull,
    JList(<<BseRec(p_2324, f_plain)>>),
    JList(<<BseRec(p_2324, f_guid)>>),
    JDict(<< <<"Table", JList(<<BseRec(p_2425, f_abs), BseRec(p_2324, <<>>),
                                BseRec(p_2324, f_abs)>>)>> >>),
    JList(<<JStr(<<"x">>)>>),
    JList(<<>>),
    JList(<<BseRec(p_2324, f_abs_twice)>>) >>
\* answers of an NSE listing endpoint (lines 513 and 518)
NseListAnswers == <<
    JNull,
    JList(<<NseRec(2023, 2024, nf_rel)>>),
    JDict(<< <<"data", JList(<<NseRec(2024, 2025, f_abs), NseRec(2023, 2024, <<>>),
                               NseRec(2023, 2024, f_abs)>>)>> >>),
    JList(<<JStr(<<"x">>)>>),
    JDict(<< <<"data", JStr(<<"x">>)>> >>),
    JDict(<< <<"data", JList(<<>>)>> >>) >>
\* outcomes of a HEAD probe (line 410)
HeadAnswers == <<
    [exc |-> TRUE, status |-> 0],
    [exc |-> FALSE, status |-> 200],
    [exc |-> FALSE, status |-> 404] >>
\* outcomes of the document download (line 82)
FetchAnswers == <<
    [exc |-> TRUE, status |-> 0, size |-> 0],
    [exc |-> FALSE, status |-> 200, size |-> 5000],
    [exc |-> FALSE, status |-> 200, size |-> 1000],
    [exc |-> FALSE, status |-> 200, size |-> 999],
    [exc |-> FALSE, status |-> 404, size |-> 5000],
    [exc |-> FALSE, status |-> 500, size |-> 0],
    [exc |-> FALSE, status |-> 304, size |-> 5000] >>

\* ================================================================= state
VARIABLES
    companies,    \* run_downloads: the list of company identifiers
    year,         \* run_downloads: the target year
    exchange,     \* run_downloads: "BSE", "NSE" or "BOTH"
    i,            \* position of the company the for loop is at (0: not started)
    pc,           \* where the run is: "loop", a stage of a handler, "done", "crashed"
    resolved,     \* handle_*: (code, name) of the pair in progress
    pdf_url,      \* handle_*: the URL the locator returned
    results,      \* run_downloads: the list of fetched documents
    logs,         \* the log lines of the run
    BSE_MASTER,   \* the module-level _BSE_MASTER
    pairFrom,     \* history: len(logs) when the pair in progress began
    pairs,        \* history: one record per company/exchange pair that finished
    resultPairs,  \* history: for each element of results, the pair it came from
    last,         \* history: the last resolver or locator call, with its result
    calls,        \* history: number of resolver or locator calls made
    objs,         \* the dict objects line 130 has created, in order of creation
    threads       \* callers running at the same time: where each one is

vars == <<companies, year, exchange, i, pc, resolved, pdf_url, results, logs,
          BSE_MASTER, pairFrom, pairs, resultPairs, last, calls, objs, threads>>

NoResp == [exc |-> FALSE, status |-> 0, size |-> 0]
\* the record of a resolver or locator call: what it was given (query, yr,
\* lists, heads, the master before) and what it left; warm tells whether the
\* NSE home page answered the session's first request
CallRecord(op, query, yr, lists, before, ret, url, sel, exc, callLogs, net, via, re, prev, prevVia, heads, key, cand) ==
    [op |-> op, query |-> query, year |-> yr, lists |-> lists, before |-> before,
     ret |-> ret, url |-> url, sel |-> sel, exc |-> exc, logs |-> callLogs, net |-> net,
     via |-> via, re |-> re, prev |-> prev, prevVia |-> prevVia, heads |-> heads,
     key |-> key, cand |-> cand, warm |-> TRUE]
NoCall == CallRecord("none", <<>>, 0, <<>>, MasterNone, NotFound, <<>>, JNull, FALSE, <<>>, <<>>,
                     "none", FALSE, NotFound, "none", <<>>, <<>>, 0)

\* ------------------------------------------------------------ bounds
MaxCompanies == 2
MaxCalls == 2

\* the lists of at most n company identifiers
RECURSIVE ListsUpTo(_)
ListsUpTo(n) ==
    IF n = 0 THEN {<<>>}
    ELSE ListsUpTo(n - 1) \cup
         {Append(l, BatchInputs[k]) : l \in {m \in ListsUpTo(n - 1) : Len(m) = n - 1},
                                      k \in 1..Len(BatchInputs)}

\* ------------------------------------------------------- run_downloads
\* lines 586-593: which handler runs first for a company, and what follows
\* handle_bse
FirstStage(exch) == IF exch \in {"BSE", "BOTH"} THEN "bse_search"
                    ELSE IF exch \in {"NSE", "BOTH"} THEN "nse_search" ELSE "loop"
AfterBse(exch) == IF exch \in {"NSE", "BOTH"} THEN "nse_search" ELSE "loop"
\* results.insert(0, res) in place of results.append(res)
AppendResultFront(rs, res) == <<res>> \o rs
\* lines 589 and 593: results.append(res)
AppendResult(rs, res) == Append(rs, res)

Init ==
    /\ companies \in ListsUpTo(MaxCompanies)
    /\ year \in {2024, 2025}
    /\ exchange \in {"BSE", "NSE", "BOTH"}
    /\ i = 0
    /\ pc = "loop"
    /\ resolved = NotFound
    /\ pdf_url = <<>>
    /\ results = <<>>
    /\ logs = <<>>
    /\ BSE_MASTER = MasterNone
    /\ pairFrom = 0
    /\ pairs = <<>>
    /\ resultPairs = <<>>
    /\ last = NoCall
    /\ calls = 0
    /\ objs = <<>>
    /\ threads = <<>>

\* line 583-585: the for loop takes the next company
BeginCompany ==
    /\ pc = "loop"
    /\ i < Len(companies)
    /\ i' = i + 1
    /\ logs' = logs \o <<"----", "> company">>
    /\ pc' = FirstStage(exchange)
    /\ pairFrom' = Len(logs')
    /\ UNCHANGED <<objs, threads, companies, year, exchange, resolved, pdf_url, results, BSE_MASTER,
                   pairs, resultPairs, last, calls>>

\* lines 594-596: the loop is over, run_downloads returns results
Finish ==
    /\ pc = "loop"
    /\ i = Len(companies)
    /\ logs' = logs \o <<"----", "Done">>
    /\ pc' = "done"
    /\ UNCHANGED <<objs, threads, companies, year, exchange, i, resolved, pdf_url, results, BSE_MASTER,
                   pairFrom, pairs, resultPairs, last, calls>>

\* a handler returns (None or a document): the pair is finished
EndPair(exch, stage, newLogs, newResults, resp) ==
    /\ logs' = newLogs
    /\ results' = newResults
    /\ pairs' = Append(pairs, [i |-> i, exch |-> exch, stage |-> stage,
                               from |-> pairFrom, to |-> Len(newLogs),
                               rfrom |-> Len(results), rto |-> Len(newResults),
                               resp |-> resp])
    /\ resultPairs' = IF Len(newResults) > Len(results)
                      THEN Append(resultPairs, <<i, exch>>) ELSE resultPairs
    /\ pc' = IF exch = "BSE" THEN AfterBse(exchange) ELSE "loop"
    /\ pairFrom' = Len(newLogs)
    /\ resolved' = NotFound
    /\ pdf_url' = <<>>

\* an exception leaves the handler and run_downloads: the run is aborted
Crash(newLogs) ==
    /\ logs' = newLogs
    /\ pc' = "crashed"
    /\ UNCHANGED <<results, pairs, resultPairs, pairFrom, resolved, pdf_url>>

\* the answers the batch run draws from (positions in the answer lists)
BatchBridgeAutos == {1, 4}
BatchAutos == {1, 2, 4}
BatchQuotes == {1}
BatchCsvs == {2}
BatchJsons == {1}
BatchBseLists == {1, 2, 5}
BatchNseLists == {1, 2, 4}
BatchHeads == {1}
BatchFetches == {1, 2, 3, 4, 5, 7}

\* the answers _load_bse_master can get: it asks only while _BSE_MASTER is None
CsvChoices(master, all) == IF master.isNone THEN all ELSE {1}

\* the document a handler returns (lines 443-445 and 573-575)
Document(exch, name, yr, data) ==
    [filename |-> ReportFileName(IF exch = "BSE" THEN <<"B","S","E">> ELSE <<"N","S","E">>,
                                 name, yr),
     data |-> data,
     exchange |-> exch, company |-> name]

\* ------------------------------------------------------------ handle_bse
\* lines 427-429: bse_search_company, and the return on not found
BseSearch ==
    /\ pc = "bse_search"
    /\ \E a \in BatchBridgeAutos, q \in BatchQuotes,
          c \in CsvChoices(BSE_MASTER, BatchCsvs), j \in CsvChoices(BSE_MASTER, BatchJsons) :
        LET env == [auto |-> AutoAnswers[a], quotes |-> Quotes(q, q),
                    csv |-> CsvAnswers[c], json |-> MasterJsonAnswers[j], homeOk |-> TRUE,
                    warmOk |-> TRUE]
            r == bse_search_company(companies[i], BSE_MASTER, env)
        IN  /\ BSE_MASTER' = r.master
            /\ IF r.exc THEN Crash(logs \o r.logs)
               ELSE IF ~r.ret.found THEN EndPair("BSE", "search", logs \o r.logs, results, NoResp)
               ELSE /\ pc' = "bse_locate"
                    /\ resolved' = r.ret
                    /\ logs' = logs \o r.logs
                    /\ UNCHANGED <<pdf_url, results, pairFrom, pairs, resultPairs>>
    /\ UNCHANGED <<objs, threads, companies, year, exchange, i, last, calls>>

\* lines 432-435: bse_get_report_url on a fresh session, and the return on None
BseLocate ==
    /\ pc = "bse_locate"
    /\ \E a \in BatchBseLists, b \in {1}, h \in BatchHeads :
        LET r == bse_get_report_url(resolved.code, year,
                     <<BseListAnswers[a], BseListAnswers[b], BseListAnswers[b]>>,
                     <<HeadAnswers[h], HeadAnswers[h], HeadAnswers[h]>>)
        IN  IF r.exc THEN Crash(logs \o r.logs)
            ELSE IF r.url = <<>> THEN EndPair("BSE", "locate", logs \o r.logs, results, NoResp)
            ELSE /\ pc' = "bse_fetch"
                 /\ pdf_url' = r.url
                 /\ logs' = logs \o r.logs
                 /\ UNCHANGED <<resolved, results, pairFrom, pairs, resultPairs>>
    /\ UNCHANGED <<objs, threads, companies, year, exchange, i, BSE_MASTER, last, calls>>

\* lines 437-445: fetch_bytes, and the document or None
BseFetch ==
    /\ pc = "bse_fetch"
    /\ \E f \in BatchFetches :
        LET data == fetch_bytes(pdf_url, FetchAnswers[f])
        IN  IF data = 0
            THEN EndPair("BSE", "fetch",
                         logs \o <<"BSE Downloading PDF", "BSE PDF download failed">>,
                         results, FetchAnswers[f])
            ELSE EndPair("BSE", "fetch",
                         logs \o <<"BSE Downloading PDF", "BSE file ready">>,
                         AppendResult(results, Document("BSE", resolved.name, year, data)),
                         FetchAnswers[f])
    /\ UNCHANGED <<objs, threads, companies, year, exchange, i, BSE_MASTER, last, calls>>

\* lines 558-561 without the return of line 561: the locator is called with
\* the symbol None
NseSearchGoOn ==
    /\ pc = "nse_search"
    /\ \E a \in BatchAutos :
        LET r == nse_search_company(companies[i], AutoAnswers[a])
        IN  IF r.exc THEN Crash(logs \o r.logs)
            ELSE /\ pc' = "nse_locate"
                 /\ resolved' = r.ret
                 /\ logs' = logs \o r.logs
                 /\ UNCHANGED <<pdf_url, results, pairFrom, pairs, resultPairs>>
    /\ UNCHANGED <<objs, threads, companies, year, exchange, i, BSE_MASTER, last, calls>>

\* ------------------------------------------------------------ handle_nse
\* lines 558-561: a primed session, nse_search_company, the return on not found
NseSearch ==
    /\ pc = "nse_search"
    /\ \E a \in BatchAutos :
        LET r == nse_search_company(companies[i], AutoAnswers[a])
        IN  IF r.exc THEN Crash(logs \o r.logs)
            ELSE IF ~r.ret.found THEN EndPair("NSE", "search", logs \o r.logs, results, NoResp)
            ELSE /\ pc' = "nse_locate"
                 /\ resolved' = r.ret
                 /\ logs' = logs \o r.logs
                 /\ UNCHANGED <<pdf_url, results, pairFrom, pairs, resultPairs>>
    /\ UNCHANGED <<objs, threads, companies, year, exchange, i, BSE_MASTER, last, calls>>

\* lines 563-565
NseLocate ==
    /\ pc = "nse_locate"
    /\ \E a \in BatchNseLists, b \in {1} :
        LET r == nse_get_report_url(resolved.code, year,
                                    <<NseListAnswers[a], NseListAnswers[b]>>)
        IN  IF r.exc THEN Crash(logs \o r.logs)
            ELSE IF r.url = <<>> THEN EndPair("NSE", "locate", logs \o r.logs, results, NoResp)
            ELSE /\ pc' = "nse_fetch"
                 /\ pdf_url' = r.url
                 /\ logs' = logs \o r.logs
                 /\ UNCHANGED <<resolved, results, pairFrom, pairs, resultPairs>>
    /\ UNCHANGED <<objs, threads, companies, year, exchange, i, BSE_MASTER, last, calls>>

\* lines 567-575
NseFetch ==
    /\ pc = "nse_fetch"
    /\ \E f \in BatchFetches :
        LET data == fetch_bytes(pdf_url, FetchAnswers[f])
        IN  IF data = 0
            THEN EndPair("NSE", "fetch",
                         logs \o <<"NSE Downloading PDF", "NSE PDF download failed">>,
                         results, FetchAnswers[f])
            ELSE EndPair("NSE", "fetch",
                         logs \o <<"NSE Downloading PDF", "NSE file ready">>,
                         AppendResult(results, Document("NSE", resolved.name, year, data)),
                         FetchAnswers[f])
    /\ UNCHANGED <<objs, threads, companies, year, exchange, i, BSE_MASTER, last, calls>>

Next ==
    \/ BeginCompany
    \/ Finish
    \/ BseSearch
    \/ BseLocate
    \/ BseFetch
    \/ NseSearch
    \/ NseLocate
    \/ NseFetch

Spec == Init /\ [][Next]_vars

\* ========================================================= resolver calls
\* The resolvers called on their own, one call after the other in one
\* process: _BSE_MASTER lives on between the calls.

InitResolve ==
    /\ companies = <<>>
    /\ year = 2024
    /\ exchange = "BOTH"
    /\ i = 0
    /\ pc = "idle"
    /\ resolved = NotFound
    /\ pdf_url = <<>>
    /\ results = <<>>
    /\ logs = <<>>
    /\ BSE_MASTER = MasterNone
    /\ pairFrom = 0
    /\ pairs = <<>>
    /\ resultPairs = <<>>
    /\ last = NoCall
    /\ calls = 0
    /\ objs = <<>>
    /\ threads = <<>>

\* the answers a resolver call may get (positions in the answer lists)
AutoChoices == 1..Len(AutoAnswers)
QuoteChoices == {<<1, 1>>, <<2, 2>>, <<3, 2>>, <<4, 1>>}
AllCsvs == 1..Len(CsvAnswers)
AllJsons == 1..Len(MasterJsonAnswers)
ResolverEnv(a, q, c, j) ==
    [auto |-> AutoAnswers[a], quotes |-> Quotes(q[1], q[2]),
     csv |-> CsvAnswers[c], json |-> MasterJsonAnswers[j], homeOk |-> TRUE,
     warmOk |-> TRUE]

\* the state after bse_search_company(query, logs) left r
BseCalled(query, r, re, prev, prevVia) ==
    /\ BSE_MASTER' = r.master
    /\ last' = CallRecord("bse", query, 0, <<>>, BSE_MASTER, r.ret, <<>>, JNull, r.exc, r.logs,
                          r.net, r.via, re, prev, prevVia, <<>>, r.key, r.cand)
    /\ logs' = r.logs
    /\ pc' = "called"
    /\ calls' = calls + 1
    /\ UNCHANGED <<objs, threads, companies, year, exchange, i, resolved, pdf_url, results, pairFrom, pairs,
                   resultPairs>>

\* a call of bse_search_company (lines 236-307)
ResolveBse ==
    /\ pc = "idle"
    /\ calls < MaxCalls
    /\ \E n \in 1..Len(ResolverInputs), a \in AutoChoices, q \in QuoteChoices,
          c \in CsvChoices(BSE_MASTER, AllCsvs), j \in CsvChoices(BSE_MASTER, AllJsons) :
        BseCalled(ResolverInputs[n],
                  bse_search_company(ResolverInputs[n], BSE_MASTER, ResolverEnv(a, q, c, j)),
                  FALSE, NotFound, "none")

\* bse_search_company called again, on the name the call before returned
ReResolveBse ==
    /\ pc = "called"
    /\ calls < MaxCalls
    /\ last.op = "bse" /\ ~last.exc /\ last.ret.found
    /\ \E a \in AutoChoices, q \in QuoteChoices :
        BseCalled(last.ret.name,
                  bse_search_company(last.ret.name, BSE_MASTER, ResolverEnv(a, q, 1, 1)),
                  TRUE, last.ret, last.via)

\* a call of nse_search_company (lines 485-505)
ResolveNse ==
    /\ pc = "idle"
    /\ calls < MaxCalls
    /\ \E n \in 1..Len(ResolverInputs), a \in AutoChoices :
        LET r == nse_search_company(ResolverInputs[n], AutoAnswers[a])
        IN  last' = CallRecord("nse", ResolverInputs[n], 0, <<>>, BSE_MASTER, r.ret, <<>>, JNull,
                               r.exc, r.logs, r.net, "none", FALSE, NotFound, "none",
                               <<>>, <<>>, 0)
    /\ logs' = last'.logs
    /\ pc' = "called"
    /\ calls' = calls + 1
    /\ UNCHANGED <<objs, threads, companies, year, exchange, i, resolved, pdf_url, results, BSE_MASTER,
                   pairFrom, pairs, resultPairs>>

\* the caller has the result (or the exception) and goes on
Return ==
    /\ pc = "called"
    /\ pc' = "idle"
    /\ last' = NoCall
    /\ logs' = <<>>
    /\ UNCHANGED <<objs, threads, companies, year, exchange, i, resolved, pdf_url, results, BSE_MASTER,
                   pairFrom, pairs, resultPairs, calls>>

NextResolve ==
    \/ ResolveBse
    \/ ReResolveBse
    \/ ResolveNse
    \/ Return

SpecResolve == InitResolve /\ [][NextResolve]_vars

\* ========================================================== locator calls
\* The report locators called on their own.

HeadChoices == {<<1, 1>>, <<2, 2>>, <<3, 2>>, <<3, 3>>, <<1, 3>>}

\* a call of bse_get_report_url (lines 310-423)
LocateBse ==
    /\ pc = "idle"
    /\ calls < MaxCalls
    /\ \E yr \in Years, a \in 1..Len(BseListAnswers), b \in 1..Len(BseListAnswers),
          h \in HeadChoices :
        LET lists == <<BseListAnswers[a], BseListAnswers[b], BseListAnswers[1]>>
            heads == <<HeadAnswers[h[1]], HeadAnswers[h[2]], HeadAnswers[h[2]]>>
            r == bse_get_report_url(c_tatasteel, yr, lists, heads)
        IN  /\ last' = CallRecord("bse_locate", c_tatasteel, yr, lists, BSE_MASTER, NotFound,
                                  r.url, r.sel, r.exc, r.logs, r.net, "none", FALSE, NotFound,
                                  "none", heads, <<>>, 0)
            /\ year' = yr
    /\ logs' = last'.logs
    /\ pc' = "called"
    /\ calls' = calls + 1
    /\ UNCHANGED <<objs, threads, companies, exchange, i, resolved, pdf_url, results, BSE_MASTER,
                   pairFrom, pairs, resultPairs>>

\* a call of nse_get_report_url (lines 508-554)
LocateNse ==
    /\ pc = "idle"
    /\ calls < MaxCalls
    /\ \E yr \in Years, a \in 1..Len(NseListAnswers), b \in 1..Len(NseListAnswers) :
        LET lists == <<NseListAnswers[a], NseListAnswers[b]>>
            r == nse_get_report_url(sym_tatasteel, yr, lists)
        IN  /\ last' = CallRecord("nse_locate", sym_tatasteel, yr, lists, BSE_MASTER, NotFound,
                                  r.url, r.sel, r.exc, r.logs, r.net, "none", FALSE, NotFound,
                                  "none", <<>>, <<>>, 0)
            /\ year' = yr
    /\ logs' = last'.logs
    /\ pc' = "called"
    /\ calls' = calls + 1
    /\ UNCHANGED <<objs, threads, companies, exchange, i, resolved, pdf_url, results, BSE_MASTER,
                   pairFrom, pairs, resultPairs>>

NextLocate ==
    \/ LocateBse
    \/ LocateNse
    \/ Return

SpecLocate == InitResolve /\ [][NextLocate]_vars

\* ============================================================ file names
\* The file name of a report (lines 443 and 573) on its own: the handlers
\* build it from the exchange, the resolved company name and the year.

\* the characters company names are drawn from, and their longest length
NameChars == {"A", " ", "/", ":", "*", "?", "|"}
MaxNameLen == 3
Names == UNION {[1..n -> NameChars] : n \in 0..MaxNameLen}

\* fname = sanitize(f"BSE_{name}_{year}_AnnualReport.pdf") (line 443),
\* sanitize(f"NSE_{name}_{year}_AnnualReport.pdf") (line 573)
NameFile ==
    /\ pc = "idle"
    /\ \E exch \in {"BSE", "NSE"}, name \in Names, yr \in {2024, 2025} :
        /\ exchange' = exch
        /\ last' = CallRecord("filename", name, yr, <<>>, BSE_MASTER, NotFound,
                              ReportFileName(IF exch = "BSE" THEN <<"B","S","E">>
                                             ELSE <<"N","S","E">>, name, yr),
                              JNull, FALSE, <<>>, <<>>, "none", FALSE, NotFound, "none",
                              <<>>, <<>>, 0)
    /\ pc' = "called"
    /\ UNCHANGED <<objs, threads, companies, year, i, resolved, pdf_url, results, logs, BSE_MASTER,
                   pairFrom, pairs, resultPairs, calls>>

NextName ==
    \/ NameFile
    \/ Return

SpecName == InitResolve /\ [][NextName]_vars

\* ========================================================== NSE sessions
\* The two places that talk to NSE, each on a session of its own: the ISIN
\* bridge of bse_search_company and handle_nse.  The home page request of
\* nse_make_session may succeed or fail.

SessionInputs == <<q_tata, q_tata_steel, q_blank, q_code, q_zzz>>

\* bse_search_company (lines 236-307) with either outcome of the home page
\* request
BridgeCall ==
    /\ pc = "idle"
    /\ calls < MaxCalls
    /\ \E n \in 1..Len(SessionInputs), w \in BOOLEAN, a \in AutoChoices, q \in QuoteChoices,
          c \in CsvChoices(BSE_MASTER, {1, 2}) :
        LET r == bse_search_company(SessionInputs[n], BSE_MASTER,
                                    [auto |-> AutoAnswers[a], quotes |-> Quotes(q[1], q[2]),
                                     csv |-> CsvAnswers[c], json |-> MasterJsonAnswers[1],
                                     homeOk |-> TRUE, warmOk |-> w])
        IN  /\ BSE_MASTER' = r.master
            /\ last' = [CallRecord("bse", SessionInputs[n], 0, <<>>, BSE_MASTER, r.ret, <<>>,
                                   JNull, r.exc, r.logs, r.net, r.via, FALSE, NotFound,
                                   "none", <<>>, r.key, r.cand) EXCEPT !.warm = w]
    /\ logs' = last'.logs
    /\ pc' = "called"
    /\ calls' = calls + 1
    /\ UNCHANGED <<objs, threads, companies, year, exchange, i, resolved, pdf_url, results, pairFrom, pairs,
                   resultPairs>>

\* handle_nse up to the URL (lines 558-565) with either outcome of the home
\* page request
HandleNse ==
    /\ pc = "idle"
    /\ calls < MaxCalls
    /\ \E n \in 1..Len(SessionInputs), w \in BOOLEAN, a \in AutoChoices,
          x \in 1..Len(NseListAnswers), y \in {1, 2} :
        LET lists == <<NseListAnswers[x], NseListAnswers[y]>>
            r == handle_nse_locate(SessionInputs[n], 2024, w, AutoAnswers[a], lists)
        IN  last' = [CallRecord("handle_nse", SessionInputs[n], 2024, lists, BSE_MASTER, r.ret,
                                r.url, JNull, r.exc, r.logs, r.net, "none", FALSE, NotFound,
                                "none", <<>>, <<>>, 0) EXCEPT !.warm = w]
    /\ logs' = last'.logs
    /\ pc' = "called"
    /\ calls' = calls + 1
    /\ UNCHANGED <<objs, threads, companies, year, exchange, i, resolved, pdf_url, results, BSE_MASTER,
                   pairFrom, pairs, resultPairs>>

NextSession ==
    \/ BridgeCall
    \/ HandleNse
    \/ Return

SpecSession == InitResolve /\ [][NextSession]_vars

\* ===================================================== concurrent callers
\* Two callers of _search_bse_master in one process, each in a thread of its
\* own (one per UI session), sharing the module-level _BSE_MASTER. A thread
\* switch may fall between any two statements of _load_bse_master; a
\* statement itself is atomic (the interpreter lock). objs holds the dict
\* objects line 130 has created; the global names the last one, and a caller
\* that was handed a dict holds a reference to the object, not a copy.
NumThreads == 2
Threads == 1..NumThreads
\* the CSV answers of this section: the full list, the list of two rows
RaceCsvs == {2, 3}
RaceQueries == {q_itc, q_zzz}
NewThread ==
    [pc |-> "start", pending |-> <<>>, ref |-> 0, own |-> FALSE, seen |-> <<>>,
     ret |-> NotFound, logs |-> <<>>]

InitRace ==
    /\ companies = <<>>
    /\ year = 2024
    /\ exchange = "BSE"
    /\ i = 0
    /\ pc = "idle"
    /\ resolved = NotFound
    /\ pdf_url = <<>>
    /\ results = <<>>
    /\ logs = <<>>
    /\ BSE_MASTER = MasterNone
    /\ pairFrom = 0
    /\ pairs = <<>>
    /\ resultPairs = <<>>
    /\ last = NoCall
    /\ calls = 0
    /\ objs = <<>>
    /\ threads = [t \in Threads |-> NewThread]

\* what the statements of _load_bse_master and _search_bse_master leave alone
RaceFrame ==
    UNCHANGED <<companies, year, exchange, i, pc, resolved, pdf_url, results, logs,
                pairFrom, pairs, resultPairs, last, calls>>

\* lines 185, 126-127: the caller enters _load_bse_master; when the global is
\* not None it is handed the dict the global names, as it is at that moment
LoadCall(t) ==
    /\ threads[t].pc = "start"
    /\ threads' = [threads EXCEPT ![t] =
                      IF BSE_MASTER.isNone THEN [@ EXCEPT !.pc = "init"]
                      ELSE [@ EXCEPT !.pc = "search", !.ref = Len(objs)]]
    /\ UNCHANGED <<objs, BSE_MASTER>>
    /\ RaceFrame

\* lines 129-130: the log line, then _BSE_MASTER = {}, before any download
LoadInit(t) ==
    /\ threads[t].pc = "init"
    /\ objs' = Append(objs, <<>>)
    /\ BSE_MASTER' = MasterOf(<<>>)
    /\ threads' = [threads EXCEPT ![t].pc = "fetch",
                                  ![t].logs = <<"BSE Loading equity master list">>]
    /\ RaceFrame

\* lines 141-144: the CSV download and the reader over its rows
LoadFetch(t) ==
    /\ threads[t].pc = "fetch"
    /\ \E c \in RaceCsvs :
         threads' = [threads EXCEPT ![t].pc = "store", ![t].pending = CsvAnswers[c].rows]
    /\ UNCHANGED <<objs, BSE_MASTER>>
    /\ RaceFrame

\* lines 145-152: one turn of the loop stores one row in the dict the global
\* names at that moment
LoadStore(t) ==
    /\ threads[t].pc = "store"
    /\ threads[t].pending # <<>>
    /\ objs' = [objs EXCEPT ![Len(objs)] = LoadCsvRows(@, <<Head(threads[t].pending)>>)]
    /\ BSE_MASTER' = MasterOf(objs'[Len(objs)])
    /\ threads' = [threads EXCEPT ![t].pending = Tail(@)]
    /\ RaceFrame

\* lines 153-154: after the last row the caller that populated is handed the
\* dict the global names
LoadReturn(t) ==
    /\ threads[t].pc = "store"
    /\ threads[t].pending = <<>>
    /\ threads' = [threads EXCEPT ![t].pc = "search", ![t].ref = Len(objs),
                                  ![t].own = TRUE,
                                  ![t].logs = @ \o <<"BSE Master loaded from CSV">>]
    /\ UNCHANGED <<objs, BSE_MASTER>>
    /\ RaceFrame

\* lines 187-233: the lookup in the dict the caller was handed, as it is now
Lookup(t) ==
    /\ threads[t].pc = "search"
    /\ \E q \in RaceQueries :
         threads' = [threads EXCEPT ![t].pc = "done",
                                    ![t].seen = objs[threads[t].ref],
                                    ![t].ret = SearchLoaded(q, objs[threads[t].ref]).ret]
    /\ UNCHANGED <<objs, BSE_MASTER>>
    /\ RaceFrame

NextRace ==
    \E t \in Threads :
        \/ LoadCall(t)
        \/ LoadInit(t)
        \/ LoadFetch(t)
        \/ LoadStore(t)
        \/ LoadReturn(t)
        \/ Lookup(t)

SpecRace == InitRace /\ [][NextRace]_vars

\* ================================================================ claims

\* C1: a failure at any stage of one company/exchange pair never aborts the
\* batch: whatever the exchanges answer, no exception leaves run_downloads.
C1_NeverAborts == pc # "crashed"

\* the pair (company position, exchange) a comes before the pair b
PairBefore(a, b) == a[1] < b[1] \/ (a[1] = b[1] /\ a[2] = "BSE" /\ b[2] = "NSE")

\* C2: the pairs are attempted in input order, BSE before NSE and only the
\* selected exchanges; the documents of results are in that same order, each
\* from a pair of its own.
C2_InputOrder ==
    /\ \A a \in 1..Len(pairs) :
        /\ pairs[a].i \in 1..i
        /\ pairs[a].exch = "BSE" => exchange \in {"BSE", "BOTH"}
        /\ pairs[a].exch = "NSE" => exchange \in {"NSE", "BOTH"}
        /\ \A b \in (a + 1)..Len(pairs) :
            PairBefore(<<pairs[a].i, pairs[a].exch>>, <<pairs[b].i, pairs[b].exch>>)
    /\ Len(results) = Len(resultPairs)
    /\ \A a \in 1..Len(results) :
        /\ results[a].exchange = resultPairs[a][2]
        /\ \A b \in (a + 1)..Len(results) : PairBefore(resultPairs[a], resultPairs[b])

\* a finished run over two companies on both exchanges in which one pair
\* failed and three documents came back
C2_Witness ==
    /\ pc = "done" /\ exchange = "BOTH" /\ Len(companies) = 2
    /\ Len(results) = 3
    /\ results[1].exchange = "BSE" /\ results[2].exchange = "NSE"

\* the failure entries of the log, per exchange
FailureEntries(exch) ==
    IF exch = "BSE"
    THEN {"BSE Not found", "BSE No report list returned", "BSE No report matched year",
          "BSE PDF download failed"}
    ELSE {"NSE Company not found", "NSE No report list returned",
          "NSE No report found for year", "NSE PDF download failed"}

\* C3: every finished pair either appended its document to results, or
\* appended none and logged a failure entry of its exchange while it ran.
C3_DocOrFailure ==
    \A k \in 1..Len(pairs) :
        \/ /\ pairs[k].rto = pairs[k].rfrom + 1
           /\ results[pairs[k].rto].exchange = pairs[k].exch
        \/ /\ pairs[k].rto = pairs[k].rfrom
           /\ \E n \in (pairs[k].from + 1)..pairs[k].to : logs[n] \in FailureEntries(pairs[k].exch)

\* a pair that failed at the year match, followed by a pair that delivered
C3_Witness ==
    /\ Len(pairs) >= 2
    /\ pairs[1].stage = "locate" /\ pairs[1].rto = pairs[1].rfrom
    /\ pairs[2].rto = pairs[2].rfrom + 1

\* C4: bse_search_company and nse_search_company return a (code, name) pair
\* or (None, None); no exception reaches their caller.
C4_NeverRaises == (pc = "called" /\ last.op \in {"bse", "nse"}) => ~last.exc

\* the inputs of the canonical pattern, and the code each embeds
DirectInputs == {q_code, q_code_sp, q_url, q_url_two}
EmbeddedCode(q) == IF q = q_url_two THEN c_itc ELSE c_tatasteel

\* C5: on a 6-digit code or a bseindia.com URL embedding one,
\* bse_search_company returns the embedded code, makes no network call and
\* leaves _BSE_MASTER as it was.
C5_DirectNoNetwork ==
    (pc = "called" /\ last.op = "bse" /\ last.query \in DirectInputs) =>
        /\ ~last.exc
        /\ last.ret.found
        /\ last.ret.code = EmbeddedCode(last.query)
        /\ last.net = <<>>
        /\ BSE_MASTER = last.before

\* a URL with two codes resolved to its first one, the master populated by
\* an earlier call
C5_Witness ==
    /\ pc = "called" /\ last.op = "bse" /\ last.query = q_url_two
    /\ last.ret.code = c_itc
    /\ ~BSE_MASTER.isNone /\ BSE_MASTER.d # <<>>

\* the entries a populated master d holds under the exact keys of a query
ExactKeyEntries(query, d) ==
    {DictAt(d, k) : k \in {x \in {upper(strip(query)), lower(strip(query))} : HasKey(d, x)}}

\* C6: an input equal to an exact key of the populated master is resolved to
\* the entry under that key, whatever the cross-exchange search answers.
C6_ExactKeyEntry ==
    (/\ pc = "called" /\ last.op = "bse"
     /\ ~last.before.isNone
     /\ ExactKeyEntries(last.query, last.before.d) # {}) =>
        /\ ~last.exc
        /\ last.ret.found
        /\ <<last.ret.code, last.ret.name>> \in ExactKeyEntries(last.query, last.before.d)

\* C7: resolving the name a master resolution returned gives the same
\* (code, name) again.
C7_Idempotent ==
    (/\ pc = "called" /\ last.op = "bse" /\ last.re
     /\ last.prevVia = "master"
     /\ last.via \in {"master", "none"}) =>
        /\ ~last.exc
        /\ last.ret = last.prev

\* a listing of exactly one record, labelled 2023-24, with a document reference
BseSingle2324(l) ==
    /\ IsList(l) /\ Len(l.v) = 1 /\ IsDict(l.v[1])
    /\ JGet(l.v[1], "year") = JStr(p_2324)
    /\ Truthy(JGet(l.v[1], "file_name"))
NseSingle2324(l) ==
    /\ IsList(l) /\ Len(l.v) = 1 /\ IsDict(l.v[1])
    /\ JGet(l.v[1], "fromYr") = JStr(IntToStr(2023))
    /\ JGet(l.v[1], "toYr") = JStr(IntToStr(2024))
    /\ Truthy(JGet(l.v[1], "fileName"))

\* C8: on a listing of one 2023-24 record, nse_get_report_url finds it for
\* 2023 and bse_get_report_url for 2024, and for 2025 both return no URL and
\* log that no record matched the year.
C8_SingleRecord ==
    /\ (pc = "called" /\ last.op = "bse_locate" /\ BseSingle2324(last.lists[1])) =>
        /\ ~last.exc
        /\ last.year = 2024 => last.url # <<>>
        /\ last.year = 2025 =>
            (last.url = <<>> /\ \E n \in 1..Len(last.logs) :
                                    last.logs[n] = "BSE No report matched year")
    /\ (pc = "called" /\ last.op = "nse_locate" /\ NseSingle2324(last.lists[1])) =>
        /\ ~last.exc
        /\ last.year = 2023 => last.url # <<>>
        /\ last.year = 2025 =>
            (last.url = <<>> /\ \E n \in 1..Len(last.logs) :
                                    last.logs[n] = "NSE No report found for year")

\* the number a string of digits writes
RECURSIVE StrToInt(_)
StrToInt(s) ==
    IF s = <<>> THEN 0
    ELSE 10 * StrToInt(SubSeq(s, 1, Len(s) - 1)) +
         (CHOOSE n \in 0..9 : IntToStr(n) = <<s[Len(s)]>>)
\* the calendar years in which the fiscal year of a record starts and ends
BseFiscalStart(rec) == StrToInt(SubSeq(JGet(rec, "year").v, 1, 4))
BseFiscalEnd(rec) == BseFiscalStart(rec) + 1
NseFiscalStart(rec) == StrToInt(JGet(rec, "fromYr").v)

\* C9: bse_get_report_url selects for year Y only a record whose fiscal year
\* ends in Y, nse_get_report_url only a record whose fiscal year starts in Y.
C9_Convention ==
    (pc = "called" /\ last.sel # JNull) =>
        /\ last.op = "bse_locate" => BseFiscalEnd(last.sel) = last.year
        /\ last.op = "nse_locate" => NseFiscalStart(last.sel) = last.year

Occurrences(tag, net) == Cardinality({k \in DOMAIN net : net[k] = tag})
\* the requests of the bulk listing: the CSV download and the JSON fallback
BulkFetches(net) == Occurrences("BSE_CSV", net) + Occurrences("BSE_MASTER_JSON", net)

\* C11: _BSE_MASTER is populated at most once per process. A call asks for
\* the bulk listing at most once, and only while _BSE_MASTER is still None;
\* once _BSE_MASTER is set (also to the empty dataset a failed load leaves)
\* no step changes it and no later call asks for the bulk listing again.
C11_PopulatedOnce ==
    [][/\ Occurrences("BSE_CSV", last'.net) <= 1
       /\ Occurrences("BSE_MASTER_JSON", last'.net) <= 1
       /\ ~BSE_MASTER.isNone =>
            /\ BSE_MASTER' = BSE_MASTER
            /\ BulkFetches(last'.net) = 0]_vars

\* C11 witness: a call searched the dataset that an earlier call had left
\* empty after both sources failed, and found it still empty
C11_Witness ==
    /\ pc = "called"
    /\ last.op = "bse"
    /\ ~last.before.isNone
    /\ last.before.d = <<>>
    /\ last.via = "none"
    /\ BSE_MASTER = last.before
    /\ "NSE_AUTOCOMPLETE" \in {last.net[k] : k \in DOMAIN last.net}

\* ---------------------------------------------------------------- C12
\* name with every character of chars replaced by an underscore
Replaced(name, chars) == [k \in 1..Len(name) |-> IF name[k] \in chars THEN "_" ELSE name[k]]
\* {EXCHANGE}_{CompanyName}_{Year}_AnnualReport.pdf
Convention(exch, name, yr) ==
    (IF exch = "BSE" THEN <<"B","S","E">> ELSE <<"N","S","E">>) \o <<"_">> \o name \o <<"_">>
    \o IntToStr(yr) \o <<"_","A","n","n","u","a","l","R","e","p","o","r","t",".","p","d","f">>

\* C12 as stated: the file name follows the convention with every "/", ":"
\* and "*" of the company name replaced by "_" and no other character of
\* the name altered.
C12_OnlyThreeReplaced ==
    (pc = "called" /\ last.op = "filename") =>
        last.url = Convention(exchange, Replaced(last.query, {"/", ":", "*"}), last.year)

\* C12 amended: the file name follows the convention with every occurrence
\* of one of the nine characters < > : " / \ | ? * in the company name
\* replaced by "_", and no other character of the name is altered.
C12_UnsafeReplaced ==
    (pc = "called" /\ last.op = "filename") =>
        last.url = Convention(exchange,
                              Replaced(last.query,
                                       {"<", ">", ":", "\"", "/", "\\", "|", "?", "*"}),
                              last.year)

\* C12 witness: a file name was built from a name that holds a "/", a "?"
\* and a blank
C12_Witness ==
    /\ pc = "called"
    /\ last.op = "filename"
    /\ last.query = <<"/", "?", " ">>
    /\ last.url = Convention(exchange, <<"_", "_", " ">>, last.year)

\* ---------------------------------------------------------------- C13
\* the log lines of a call, as a set
LogSet(call) == {call.logs[k] : k \in DOMAIN call.logs}
\* the ISINs the NSE quote answers carry, as _BSE_MASTER keys
QuoteIsins == {upper(i_tatasteel), upper(i_tatamotors)}
\* the log lines only _search_bse_master and Strategy 3 write
MasterSearchLogs == {"BSE Master match", "BSE Master prefix match", "BSE Found via master"}

\* C13: bse_search_company tries the direct parse, then the ISIN bridge,
\* then the local master search, and the first strategy with a result
\* decides: a direct input is answered before any log line or request; a
\* bridge result is the master entry under exactly the ISIN a quote of one of
\* the first five NSE candidates carried, found without the master search;
\* the master search decides only after the bridge found nothing; and
\* not-found is returned only when all three found nothing.
C13_StrategyOrder ==
    (pc = "called" /\ last.op = "bse" /\ ~last.exc) =>
        /\ Occurrences("NSE_QUOTE", last.net) <= 5
        /\ (last.via = "direct") = (last.query \in DirectInputs)
        /\ last.via = "direct" => (last.ret.found /\ last.logs = <<>> /\ last.net = <<>>)
        /\ last.via # "direct" => last.logs[1] = "BSE Searching"
        /\ last.via = "bridge" =>
              /\ last.ret.found
              /\ last.cand \in 1..5
              /\ last.key \in QuoteIsins
              /\ HasKey(BSE_MASTER.d, last.key)
              /\ DictAt(BSE_MASTER.d, last.key) = <<last.ret.code, last.ret.name>>
              /\ "BSE Resolved via ISIN" \in LogSet(last)
              /\ LogSet(last) \cap MasterSearchLogs = {}
        /\ last.via = "master" =>
              /\ last.ret.found
              /\ "BSE Resolved via ISIN" \notin LogSet(last)
              /\ "BSE Found via master" \in LogSet(last)
              /\ SearchLoaded(last.query, BSE_MASTER.d).ret = last.ret
        /\ ~last.ret.found =>
              /\ last.via = "none"
              /\ "BSE Resolved via ISIN" \notin LogSet(last)
              /\ "BSE Not found" \in LogSet(last)
              /\ ~SearchLoaded(last.query, BSE_MASTER.d).ret.found

\* C13 witness: the bridge decided on the second NSE candidate, whose ISIN
\* is a key of the master, for a query the master search would have
\* resolved to another entry
C13_Witness ==
    /\ pc = "called" /\ last.op = "bse" /\ ~last.exc
    /\ last.via = "bridge"
    /\ last.cand = 2
    /\ last.key = upper(i_tatasteel)
    /\ last.query = q_tata
    /\ SearchLoaded(last.query, BSE_MASTER.d).ret.found
    /\ SearchLoaded(last.query, BSE_MASTER.d).ret # last.ret

\* ---------------------------------------------------------------- C14
\* the entries of the master d stored under a name key (line 150: the
\* lower-cased name of the entry)
NameEntries(d) == {k \in DOMAIN d : d[k][1] = lower(d[k][2][2])}
\* among the entries ks of d, those with the shortest key
ShortestOf(d, ks) == {k \in ks : \A j \in ks : Len(d[k][1]) <= Len(d[j][1])}
\* the name entries whose key contains s, and those whose key starts with w
Containing(d, s) == {k \in NameEntries(d) : Contains(s, d[k][1])}
StartingWith(d, w) == {k \in NameEntries(d) : startswith(d[k][1], w)}
\* what the substring stage, then the prefix stage, may return for the
\* suffix-stripped query s with the words ws; {} stands for not found
FuzzyExpected(d, s, ws) ==
    IF Containing(d, s) # {} THEN ShortestOf(d, Containing(d, s))
    ELSE IF ws # <<>> /\ Len(ws[1]) >= 3 THEN ShortestOf(d, StartingWith(d, ws[1]))
    ELSE {}
\* the stages in order, for the upper- and lower-cased query q and ql
StagesExpected(d, q, ql) ==
    IF HasKey(d, q) THEN {KeyIndex(d, q)}
    ELSE IF HasKey(d, ql) THEN {KeyIndex(d, ql)}
    ELSE FuzzyExpected(d, StripSuffixes(ql),
                       split(IF StripSuffixes(ql) # <<>> THEN StripSuffixes(ql) ELSE ql))

\* C14: _search_bse_master answers from the first stage that matches, in the
\* order exact identifier, exact lower-cased name, substring after stripping
\* the suffix tokens, first-word prefix; the substring stage returns the
\* entry of a shortest key among all name keys containing the stripped
\* query, the prefix stage (first word of at least 3 characters only) that
\* of a shortest key among all name keys starting with the first word, and
\* not-found is returned when no stage matches.
C14_ShortestNameKey ==
    (/\ pc = "called" /\ last.op = "bse" /\ ~last.exc
     /\ last.via \in {"master", "none"}
     /\ BSE_MASTER.d # <<>>) =>
        LET exp == StagesExpected(BSE_MASTER.d, upper(strip(last.query)),
                                  lower(strip(last.query)))
        IN  IF exp = {} THEN ~last.ret.found
            ELSE /\ last.ret.found
                 /\ \E k \in exp : BSE_MASTER.d[k][2] = <<last.ret.code, last.ret.name>>

\* ---------------------------------------------------------------- C15
\* the call loaded the master, and the CSV download gave at least one row
\* with a code and a name
PrimaryYieldedRows ==
    /\ "BSE Master loaded from CSV" \in LogSet(last)
    /\ BSE_MASTER.d # <<>>

\* C15: a call that populates _BSE_MASTER asks the JSON endpoint whenever
\* the CSV download did not yield at least one usable (code, name) row, also
\* when the answer was accepted as CSV but no row had the expected columns.
C15_FallbackTried ==
    (/\ pc = "called" /\ last.op = "bse"
     /\ last.before.isNone /\ ~BSE_MASTER.isNone) =>
        (PrimaryYieldedRows \/ Occurrences("BSE_MASTER_JSON", last.net) = 1)

\* ---------------------------------------------------------------- C16
\* C16: when the population of _BSE_MASTER failed, the dataset is left
\* empty and no exception leaves the resolver; with the empty dataset every
\* resolution of an input that is no code and no URL returns not-found,
\* whatever the NSE search and quotes answer, while a code or a URL with a
\* code still resolves to that code.
C16_EmptyDataset ==
    (/\ pc = "called" /\ last.op = "bse"
     /\ ~BSE_MASTER.isNone /\ BSE_MASTER.d = <<>>) =>
        /\ ~last.exc
        /\ last.query \in DirectInputs =>
              (last.ret.found /\ last.ret.code = EmbeddedCode(last.query))
        /\ last.query \notin DirectInputs =>
              (~last.ret.found /\ last.via = "none" /\ "BSE Not found" \in LogSet(last))

\* C16 witness: with the dataset left empty by an earlier call, a company
\* name was not resolved although the NSE quote carried an ISIN
C16_Witness ==
    /\ pc = "called" /\ last.op = "bse"
    /\ ~last.before.isNone /\ last.before.d = <<>>
    /\ BSE_MASTER = last.before
    /\ last.query = q_tata_steel
    /\ "BSE NSE hit" \in LogSet(last)
    /\ ~last.ret.found /\ ~last.exc

\* with the dataset left empty by an earlier call, a code is still resolved
C16_DirectWitness ==
    /\ pc = "called" /\ last.op = "bse"
    /\ ~last.before.isNone /\ last.before.d = <<>>
    /\ last.query = q_code_sp
    /\ last.ret.found /\ last.ret.code = c_tatasteel

\* ---------------------------------------------------------------- C17
\* an endpoint answer parses as a non-empty sequence of records: a bare
\* non-empty list, or a dict whose first truthy container field among
\* fields is one
IsListing(ans, fields) ==
    \/ IsList(ans) /\ ans.v # <<>>
    \/ /\ IsDict(ans)
       /\ IsList(FirstTruthy(ans, fields, JList(<<>>)))
       /\ FirstTruthy(ans, fields, JList(<<>>)).v # <<>>
\* the first endpoint whose answer is a listing, 0 when there is none
FirstListing(lists, fields) ==
    IF \E k \in DOMAIN lists : IsListing(lists[k], fields)
    THEN CHOOSE k \in DOMAIN lists :
            /\ IsListing(lists[k], fields)
            /\ \A j \in 1..(k - 1) : ~IsListing(lists[j], fields)
    ELSE 0
\* the endpoints are asked in order up to the first listing, all of them
\* when there is none, and only then the listing is reported unavailable
EndpointsInOrder(call, fields, tag, unavailable) ==
    /\ Occurrences(tag, call.net) =
          (IF FirstListing(call.lists, fields) = 0 THEN Len(call.lists)
           ELSE FirstListing(call.lists, fields))
    /\ (unavailable \in LogSet(call)) = (FirstListing(call.lists, fields) = 0)

\* C17: each locator asks its listing endpoints in their fixed order and
\* takes the first answer that is a non-empty list of records, bare or
\* wrapped in a known container field; it asks no endpoint after that one,
\* and it reports the listing unavailable only after all its endpoints were
\* asked and none gave such a list.
C17_EndpointOrder ==
    /\ (pc = "called" /\ last.op = "bse_locate") =>
          EndpointsInOrder(last, <<"Table", "data", "AnnualReportList", "reports">>,
                           "BSE_LIST", "BSE No report list returned")
    /\ (pc = "called" /\ last.op = "nse_locate") =>
          EndpointsInOrder(last, <<"data", "reports", "annualReports">>,
                           "NSE_LIST", "NSE No report list returned")

\* ---------------------------------------------------------------- C18
\* the records of the listing a locator call accepted (<<>>: none)
BseRecords(call) ==
    IF IsList(BseListing(call.lists, 1).data) THEN BseListing(call.lists, 1).data.v ELSE <<>>
NseAnswer(call) == IF Truthy(call.lists[1]) THEN call.lists[1] ELSE call.lists[2]
NseListed(ans) ==
    IF IsDict(ans) THEN FirstTruthy(ans, <<"data", "reports", "annualReports">>, JList(<<>>))
    ELSE ans
NseRecords(call) == IF IsList(NseListed(NseAnswer(call))) THEN NseListed(NseAnswer(call)).v ELSE <<>>
Records(call) == IF call.op = "bse_locate" THEN BseRecords(call) ELSE NseRecords(call)
\* the year predicate of the call's exchange, and the document reference
Matches(call, item) ==
    IF call.op = "bse_locate" THEN BseYearMatches(item, call.year)
    ELSE NseYearMatches(item, call.year)
Reference(call, item) ==
    IF call.op = "bse_locate" THEN BsePdfRef(item)
    ELSE PyStr(FirstTruthy(item, <<"fileName">>, EmptyStr))
\* the least element of a non-empty set of record numbers
Earliest(ks) == CHOOSE k \in ks : \A j \in ks : k <= j
\* the records a call looked at, by its log lines: exchange B logs every
\* record it reads, exchange A every record that matched
Examined(call, upTo) ==
    IF call.op = "nse_locate" THEN Occurrences("NSE-DEBUG Entry", call.logs) = upTo
    ELSE Occurrences("BSE Year matched", call.logs) =
             Cardinality({k \in 1..upTo : Matches(call, Records(call)[k])})
\* a locator call that returned, on a listing of records only
LocatorReturned ==
    /\ pc = "called" /\ last.op \in {"bse_locate", "nse_locate"} /\ ~last.exc
    /\ \A k \in DOMAIN Records(last) : IsDict(Records(last)[k])
\* the URL of the call comes from record k, no later record was looked at
BuiltFrom(k) ==
    /\ last.sel = Records(last)[k]
    /\ endswith(last.url, Reference(last, Records(last)[k]))
    /\ Examined(last, k)

\* C18 as stated: the URL a locator returns is built from the earliest
\* record of the listing that satisfies the year predicate, and no later
\* record is looked at.
C18_EarliestMatch ==
    (LocatorReturned /\ last.url # <<>>) =>
        BuiltFrom(Earliest({k \in DOMAIN Records(last) : Matches(last, Records(last)[k])}))

\* C18 amended: the URL a locator returns is built from the earliest record
\* that satisfies the year predicate and carries a non-empty document
\* reference, no later record is looked at, and no URL is returned exactly
\* when the listing holds no such record.
C18_EarliestWithReference ==
    LocatorReturned =>
        LET usable == {k \in DOMAIN Records(last) :
                          /\ Matches(last, Records(last)[k])
                          /\ Reference(last, Records(last)[k]) # <<>>}
        IN  IF usable = {}
            THEN last.url = <<>> /\ last.sel = JNull /\ Examined(last, Len(Records(last)))
            ELSE last.url # <<>> /\ BuiltFrom(Earliest(usable))

\* C18 witness: the second record matched the year without a document
\* reference and the URL came from the third, the first not matching
C18_Witness ==
    /\ LocatorReturned
    /\ Len(Records(last)) = 3
    /\ ~Matches(last, Records(last)[1])
    /\ Matches(last, Records(last)[2])
    /\ Reference(last, Records(last)[2]) = <<>>
    /\ last.sel = Records(last)[3]
    /\ last.url = f_abs

\* ---------------------------------------------------------------- C19
\* the document reference as the record holds it
RawReference(call, item) ==
    IF call.op = "bse_locate" THEN PyStr(FirstTruthy(item, BsePdfAliases, EmptyStr))
    ELSE PyStr(FirstTruthy(item, <<"fileName">>, EmptyStr))
IsAbsoluteUrl(ref) ==
    \/ startswith(ref, <<"h","t","t","p",":","/","/">>)
    \/ startswith(ref, <<"h","t","t","p","s",":","/","/">>)
\* the base paths of the call's exchange
BasePaths(call) ==
    IF call.op = "bse_locate" THEN {BseBaseAttachHis, BseBaseAnnualReports, BseBasePlus}
    ELSE {NseBase}

\* C19: when the record a locator took its URL from holds an absolute URL
\* as document reference, the locator returns exactly that reference and
\* sends no probe; otherwise it returns a base path followed by the
\* reference.
C19_AbsoluteVerbatim ==
    (LocatorReturned /\ last.sel # JNull) =>
        IF IsAbsoluteUrl(RawReference(last, last.sel))
        THEN last.url = RawReference(last, last.sel) /\ Occurrences("BSE_HEAD", last.net) = 0
        ELSE \E base \in BasePaths(last) : last.url = base \o Reference(last, last.sel)

\* ---------------------------------------------------------------- C20
\* the records of a call that match the year and carry a reference
Usable(call) ==
    {k \in DOMAIN Records(call) : /\ IsDict(Records(call)[k])
                                  /\ Matches(call, Records(call)[k])
                                  /\ Reference(call, Records(call)[k]) # <<>>}
\* bse_get_report_url came to a matching record whose reference is a bare
\* file name
BareFileName ==
    /\ pc = "called" /\ last.op = "bse_locate"
    /\ \A k \in DOMAIN Records(last) : IsDict(Records(last)[k])
    /\ Usable(last) # {}
    /\ ~startswith(Reference(last, Records(last)[Earliest(Usable(last))]), <<"h","t","t","p">>)
\* the probes of a call that succeed: no exception and a status below 400
Succeeding(call) == {k \in 1..3 : ~call.heads[k].exc /\ call.heads[k].status < 400}
\* the base paths in their order of priority
BasesInOrder == <<BseBaseAttachHis, BseBaseAnnualReports, BseBasePlus>>
\* the URL and the probes of a call for the file name pdf
ProbedInOrder(call, pdf) ==
    IF IsGuid(pdf)
    THEN call.url = BseBaseAttachHis \o pdf /\ Occurrences("BSE_HEAD", call.net) = 1
    ELSE IF Succeeding(call) # {}
    THEN /\ call.url = BasesInOrder[Earliest(Succeeding(call))] \o pdf
         /\ Occurrences("BSE_HEAD", call.net) = Earliest(Succeeding(call))
         /\ "BSE URL confirmed" \in LogSet(call)
    ELSE /\ call.url = BseBaseAttachHis \o pdf
         /\ Occurrences("BSE_HEAD", call.net) = 3
         /\ "BSE Returning best-guess URL" \in LogSet(call)

\* C20: for a matched record with a bare file name bse_get_report_url tries
\* one base path when the name has the shape of a UUID, otherwise it probes
\* the base paths in order and returns the first candidate whose probe
\* succeeds, and when every probe fails or raises it returns the candidate
\* of the first base path unchecked; it always returns a URL and never
\* raises or reports no match.
C20_BasePathProbes ==
    BareFileName =>
        /\ ~last.exc
        /\ last.url # <<>>
        /\ "BSE No report matched year" \notin LogSet(last)
        /\ ProbedInOrder(last, Reference(last, Records(last)[Earliest(Usable(last))]))

\* C20 witness: the first probe raised, the other two were answered 404,
\* and the candidate of the first base path was returned for ar.pdf
C20_Witness ==
    /\ BareFileName
    /\ last.heads[1].exc /\ last.heads[2].status = 404 /\ last.heads[3].status = 404
    /\ last.url = BseBaseAttachHis \o f_plain
    /\ Occurrences("BSE_HEAD", last.net) = 3

\* the second probe succeeded after the first was answered 404
C20_SecondBase ==
    /\ BareFileName
    /\ last.heads[1].status = 404
    /\ last.url = BseBaseAnnualReports \o f_plain

\* ---------------------------------------------------------------- C21
\* the data calls to NSE: autocomplete search, quote of a candidate, filing
\* list
NseDataCalls == {"NSE_AUTOCOMPLETE", "NSE_QUOTE", "NSE_LIST"}
\* the requests of a call that go to NSE, in order
NseRequests(call) == SelectSeq(call.net, LAMBDA t : t = "NSE_WARMUP" \/ t \in NseDataCalls)

\* C21: a call that talks to NSE makes one session; the home page request
\* on it comes before every data call of the call (autocomplete, quote,
\* filing list), and whether the home page request succeeds or fails the
\* autocomplete call follows it and no exception comes of it: handle_nse
\* always sends both requests, and the bridge lets no exception out at all.
C21_WarmUpFirst ==
    (pc = "called" /\ last.op \in {"bse", "handle_nse"}) =>
        /\ NseRequests(last) # <<>> =>
              /\ NseRequests(last)[1] = "NSE_WARMUP"
              /\ Len(NseRequests(last)) >= 2
              /\ NseRequests(last)[2] = "NSE_AUTOCOMPLETE"
              /\ \A k \in 2..Len(NseRequests(last)) : NseRequests(last)[k] \in NseDataCalls
        /\ last.op = "handle_nse" => NseRequests(last) # <<>>
        /\ (last.op = "bse" /\ split(last.query) # <<>> /\ last.query \notin DirectInputs) =>
              NseRequests(last) # <<>>
        /\ (last.exc /\ last.op = "handle_nse") => "NSE Searching" \in LogSet(last)
        /\ (last.exc /\ last.op = "bse") => "NSE_AUTOCOMPLETE" \in {last.net[k] : k \in DOMAIN last.net}

\* C21 witness: the home page request failed, and handle_nse went on to the
\* autocomplete call and the filing list and returned a URL
C21_Witness ==
    /\ pc = "called" /\ last.op = "handle_nse"
    /\ ~last.warm
    /\ NseRequests(last) = <<"NSE_WARMUP", "NSE_AUTOCOMPLETE", "NSE_LIST">>
    /\ ~last.exc
    /\ last.url # <<>>

\* the home page request failed, and the bridge went on to the autocomplete
\* call and a quote and resolved the company
C21_BridgeWitness ==
    /\ pc = "called" /\ last.op = "bse"
    /\ ~last.warm
    /\ last.via = "bridge"
    /\ Occurrences("NSE_QUOTE", last.net) >= 1

\* ---------------------------------------------------------------- C22
\* the log lines of a finished pair, and the line a stage of exchange exch
\* begins with
PairLogs(p) == SubSeq(logs, p.from + 1, p.to)
LocatorLine(exch) == IF exch = "BSE" THEN "BSE Fetching report list" ELSE "NSE Fetching report list"
FetcherLine(exch) == IF exch = "BSE" THEN "BSE Downloading PDF" ELSE "NSE Downloading PDF"
\* the lines that report a resolution not found, and a location that failed
NotResolvedLines == {"BSE Not found", "NSE Company not found"}
NotLocatedLines == {"BSE No report list returned", "BSE No report matched year",
                    "NSE No report list returned", "NSE No report found for year"}
\* the positions of a line in a sequence of lines
Positions(line, lines) == {k \in DOMAIN lines : lines[k] = line}
\* the stages of one pair, read from its log lines
StagesOnceInOrder(p, lines) ==
    /\ Cardinality(Positions(LocatorLine(p.exch), lines)) <= 1
    /\ Cardinality(Positions(FetcherLine(p.exch), lines)) <= 1
    /\ \A f \in Positions(FetcherLine(p.exch), lines) :
          \E l \in Positions(LocatorLine(p.exch), lines) : l < f
    /\ (\E k \in DOMAIN lines : lines[k] \in NotResolvedLines) =>
          (Positions(LocatorLine(p.exch), lines) = {} /\ p.stage = "search")
    /\ (\E k \in DOMAIN lines : lines[k] \in NotLocatedLines) =>
          (Positions(FetcherLine(p.exch), lines) = {} /\ p.stage = "locate")
    /\ p.stage = "search" => Positions(LocatorLine(p.exch), lines) = {}
    /\ p.stage \in {"search", "locate"} =>
          (Positions(FetcherLine(p.exch), lines) = {} /\ p.resp = NoResp)
    /\ p.stage = "fetch" =>
          (Cardinality(Positions(FetcherLine(p.exch), lines)) = 1 /\ p.resp # NoResp)

\* the stages of the pair that is being handled (or was, when the run was
\* aborted), read from the log lines written since it began
StartedOnce(exch, lines) ==
    /\ Cardinality(Positions(LocatorLine(exch), lines)) <= 1
    /\ Cardinality(Positions(FetcherLine(exch), lines)) <= 1
    /\ \A k \in DOMAIN lines :
          lines[k] \in NotResolvedLines \cup NotLocatedLines =>
              \A j \in k..Len(lines) : lines[j] \notin {LocatorLine(exch), FetcherLine(exch)}

\* C22: in one run every company/exchange pair is handled once, its stages
\* run at most once each in the order resolver, locator, fetcher, the
\* locator is not called after a resolution that found nothing, the
\* document is not requested after a location that failed, and it is
\* requested at most once.
C22_StagesOnce ==
    /\ \A a, b \in DOMAIN pairs :
          (pairs[a].i = pairs[b].i /\ pairs[a].exch = pairs[b].exch) => a = b
    /\ \A a \in DOMAIN pairs : StagesOnceInOrder(pairs[a], PairLogs(pairs[a]))
    /\ \A exch \in {"BSE", "NSE"} : StartedOnce(exch, SubSeq(logs, pairFrom + 1, Len(logs)))

\* C22 witness: a run in which one pair ended at the resolver, one at the
\* locator and one at a document request that failed
C22_Witness ==
    /\ pc = "done"
    /\ \E a, b, c \in DOMAIN pairs :
          /\ pairs[a].stage = "search"
          /\ pairs[b].stage = "locate"
          /\ pairs[c].stage = "fetch" /\ pairs[c].rto = pairs[c].rfrom

\* ------------------------------------------------------------------- C23
\* the datasets a finished population leaves: one per CSV answer
CompleteDatasets == {LoadCsvRows(<<>>, CsvAnswers[c].rows) : c \in RaceCsvs}

\* C23: when two resolver calls run at the same time in one process, a
\* caller of _load_bse_master that did not populate the dataset itself makes
\* its lookup against a fully populated dataset, never against one that is
\* still empty or only partly filled by the other caller's population.
C23_NoPartialDataset ==
    \A t \in Threads :
        threads[t].pc = "done" =>
            \/ threads[t].own
            \/ threads[t].seen \in CompleteDatasets

====
